---------------------------- MODULE Spec2Model ----------------------------
(***************************************************************************)
(* Model of the JSAC Student Insights Dashboard (src/src/App.tsx): the     *)
(* header normalizer, the cell coercers, the header-row detector, the row  *)
(* parser and the derived views (unique profiles, weekly buckets, active   *)
(* check-ins) computed from the Student Record list.                       *)
(*                                                                         *)
(* Text is a sequence of one-character strings, so that case folding,      *)
(* trimming and the regular-expression rewrites of the source are computed *)
(* character by character.  Instants are whole minutes since               *)
(* 1970-01-01T00:00Z (Date.getTime() / 60000).                             *)
(***************************************************************************)
EXTENDS Integers, Sequences, FiniteSets, TLC

VARIABLES tz, upload, pending, fileName, students, error,
          selectedRecordKey, selectedRecordName, selectedActiveId

vars == <<tz, upload, pending, fileName, students, error,
          selectedRecordKey, selectedRecordName, selectedActiveId>>

(* Bound of the model: the number of file reads in flight at once.         *)
MaxPending == 2

(* Bound of the model: the number of data rows of an uploaded sheet.       *)
MaxRows == 2

---------------------------------------------------------------------------
(* Text primitives of the JavaScript runtime.                              *)

UpperToLower ==
  [c \in {"A","B","C","D","E","F","G","H","I","J","K","L","M","N","O","P",
          "Q","R","S","T","U","V","W","X","Y","Z"} |->
     CASE c = "A" -> "a" [] c = "B" -> "b" [] c = "C" -> "c" [] c = "D" -> "d"
       [] c = "E" -> "e" [] c = "F" -> "f" [] c = "G" -> "g" [] c = "H" -> "h"
       [] c = "I" -> "i" [] c = "J" -> "j" [] c = "K" -> "k" [] c = "L" -> "l"
       [] c = "M" -> "m" [] c = "N" -> "n" [] c = "O" -> "o" [] c = "P" -> "p"
       [] c = "Q" -> "q" [] c = "R" -> "r" [] c = "S" -> "s" [] c = "T" -> "t"
       [] c = "U" -> "u" [] c = "V" -> "v" [] c = "W" -> "w" [] c = "X" -> "x"
       [] c = "Y" -> "y" [] c = "Z" -> "z"]

LowerChar(c) == IF c \in DOMAIN UpperToLower THEN UpperToLower[c] ELSE c

toLowerCase(s) == [i \in 1..Len(s) |-> LowerChar(s[i])]

LowerLetters ==
  {"a","b","c","d","e","f","g","h","i","j","k","l","m","n","o","p","q","r",
   "s","t","u","v","w","x","y","z"}

Digits == {"0","1","2","3","4","5","6","7","8","9"}

WhiteSpace == {" ", "\t", "\n", "\r"}

LineTerminators == {"\n", "\r"}

RECURSIVE trimStart(_)
trimStart(s) ==
  IF s # <<>> /\ Head(s) \in WhiteSpace THEN trimStart(Tail(s)) ELSE s

RECURSIVE trimEnd(_)
trimEnd(s) ==
  IF s # <<>> /\ s[Len(s)] \in WhiteSpace
  THEN trimEnd(SubSeq(s, 1, Len(s) - 1))
  ELSE s

trim(s) == trimEnd(trimStart(s))

(* s.replace(/\r?\n+/g, ' ') : an optional CR and a run of LFs become one  *)
(* space.                                                                  *)
RECURSIVE SkipLF(_, _)
SkipLF(s, i) == IF i <= Len(s) /\ s[i] = "\n" THEN SkipLF(s, i + 1) ELSE i

RECURSIVE replaceNewlines(_, _)
replaceNewlines(s, i) ==
  IF i > Len(s) THEN <<>>
  ELSE IF s[i] = "\n" THEN <<" ">> \o replaceNewlines(s, SkipLF(s, i))
  ELSE IF s[i] = "\r" /\ i < Len(s) /\ s[i + 1] = "\n"
       THEN <<" ">> \o replaceNewlines(s, SkipLF(s, i + 1))
  ELSE <<s[i]>> \o replaceNewlines(s, i + 1)

(* s.replace(/\(.*?\)/g, '') : from a "(" to the first ")" after it, when  *)
(* no line terminator lies between them ("." matches none).                *)
RECURSIVE CloseParen(_, _)
CloseParen(s, j) ==
  IF j > Len(s) \/ s[j] \in LineTerminators THEN 0
  ELSE IF s[j] = ")" THEN j
  ELSE CloseParen(s, j + 1)

RECURSIVE stripParens(_, _)
stripParens(s, i) ==
  IF i > Len(s) THEN <<>>
  ELSE IF s[i] = "(" /\ CloseParen(s, i + 1) # 0
       THEN stripParens(s, CloseParen(s, i + 1) + 1)
  ELSE <<s[i]>> \o stripParens(s, i + 1)

(* s.replace(/&amp;/g, 'and')                                              *)
RECURSIVE replaceAmp(_, _)
replaceAmp(s, i) ==
  IF i > Len(s) THEN <<>>
  ELSE IF i + 4 <= Len(s) /\ SubSeq(s, i, i + 4) = <<"&", "a", "m", "p", ";">>
       THEN <<"a", "n", "d">> \o replaceAmp(s, i + 5)
  ELSE <<s[i]>> \o replaceAmp(s, i + 1)

(* s.replace(/[^a-z0-9?]+/g, '')                                           *)
IsKeyChar(c) == c \in LowerLetters \cup Digits \cup {"?"}

keepKeyChars(s) == SelectSeq(s, IsKeyChar)

(* The variant of normalizeHeaderKey without the character filter.         *)
normalizeHeaderKeyUnfiltered(key) ==
  trim(replaceAmp(stripParens(replaceNewlines(toLowerCase(key), 1), 1), 1))

normalizeHeaderKey(key) ==
  trim(keepKeyChars(replaceAmp(stripParens(
    replaceNewlines(toLowerCase(key), 1), 1), 1)))

columnMap ==
     (<<"n", "a", "m", "e">> :> "studentName")
  @@ (<<"s", "c", "h", "o", "o", "l", "n", "a", "m", "e">> :> "schoolName")
  @@ (<<"h", "o", "m", "e", "z", "i", "p", "c", "o", "d", "e">> :> "homeZipCode")
  @@ (<<"c", "o", "u", "n", "t", "y">> :> "county")
  @@ (<<"g", "r", "a", "d", "e">> :> "grade")
  @@ (<<"g", "e", "n", "d", "e", "r">> :> "gender")
  @@ (<<"a", "g", "e">> :> "age")
  @@ (<<"d", "a", "t", "e", "o", "f", "f", "i", "r", "s", "t", "v", "i", "s", "i", "t">> :> "firstVisitDate")
  @@ (<<"n", "u", "m", "b", "e", "r", "o", "f", "s", "i", "b", "l", "i", "n", "g", "s">> :> "siblings")
  @@ (<<"n", "u", "m", "b", "e", "r", "o", "f", "p", "a", "r", "e", "n", "t", "s", "i", "n", "h", "o", "u", "s", "e", "h", "o", "l", "d">> :> "parentsGuardians")
  @@ (<<"c", "a", "r", "e", "e", "r", "i", "n", "t", "e", "r", "e", "s", "t">> :> "careerInterest")
  @@ (<<"h", "o", "b", "b", "i", "e", "s">> :> "hobbies")
  @@ (<<"a", "d", "u", "l", "t", "?">> :> "isAdult")
  @@ (<<"t", "e", "a", "m", "n", "a", "m", "e">> :> "teamName")
  @@ (<<"t", "e", "a", "m", "n", "u", "m", "b", "e", "r">> :> "teamNumber")
  @@ (<<"e", "m", "a", "i", "l">> :> "email")
  @@ (<<"c", "h", "e", "c", "k", "e", "d", "i", "n">> :> "checkedIn")
  @@ (<<"c", "h", "e", "c", "k", "e", "d", "o", "u", "t">> :> "checkedOut")
  @@ (<<"c", "h", "e", "c", "k", "i", "n", "d", "a", "t", "e">> :> "checkInDate")
  @@ (<<"c", "h", "e", "c", "k", "o", "u", "t", "d", "a", "t", "e">> :> "checkOutDate")
  @@ (<<"e", "l", "a", "p", "s", "e", "d", "t", "i", "m", "e">> :> "elapsedTime")

(* columnMap[normalized], "none" standing for undefined (the empty key is  *)
(* no key of the map).                                                     *)
mappedKeyOf(normalized) ==
  IF normalized \in DOMAIN columnMap THEN columnMap[normalized] ELSE "none"

ReadmeHeaders ==
  << <<"S", "t", "u", "d", "e", "n", "t", " ", "N", "a", "m", "e">>, <<"G", "e", "n", "d", "e", "r">>, <<"A", "g", "e">>, <<"T", "e", "a", "m", " ", "N", "a", "m", "e">>, <<"T", "e", "a", "m", " ", "N", "u", "m", "b", "e", "r">>,
     <<"S", "c", "h", "o", "o", "l", " ", "N", "a", "m", "e">>, <<"C", "o", "u", "n", "t", "y">>, <<"H", "o", "m", "e", " ", "Z", "i", "p", " ", "C", "o", "d", "e">>, <<"G", "r", "a", "d", "e">>,
     <<"C", "h", "e", "c", "k", "-", "I", "n", " ", "D", "a", "t", "e">>, <<"C", "h", "e", "c", "k", "-", "O", "u", "t", " ", "D", "a", "t", "e">>, <<"E", "l", "a", "p", "s", "e", "d", " ", "T", "i", "m", "e", " ", "(", "m", "i", "n", ")">> >>

---------------------------------------------------------------------------
(* Cell values and field values.  A value is a tagged record: t is the    *)
(* JavaScript type ("undefined", "null", "string", "number", "boolean",   *)
(* "date"), s the text of a string, n the number (or the instant of a     *)
(* date, in minutes), b the boolean.                                       *)

Undefined == [t |-> "undefined", s |-> <<>>, n |-> 0, f |-> 0, b |-> FALSE]
Null      == [t |-> "null",      s |-> <<>>, n |-> 0, f |-> 0, b |-> FALSE]
Str(x)    == [t |-> "string",    s |-> x,    n |-> 0, f |-> 0, b |-> FALSE]
Num(x)    == [t |-> "number",    s |-> <<>>, n |-> x, f |-> 0, b |-> FALSE]
Bool(x)   == [t |-> "boolean",   s |-> <<>>, n |-> 0, f |-> 0, b |-> x]
DateAt(x) == [t |-> "date",      s |-> <<>>, n |-> x, f |-> 0, b |-> FALSE]

(* The number day + sec/86400, sec in 0..86399: a spreadsheet serial with  *)
(* a time of day.                                                          *)
Serial(day, sec) == [t |-> "number", s |-> <<>>, n |-> day, f |-> sec, b |-> FALSE]

(* Boolean(v): JavaScript truthiness.                                      *)
Truthy(v) ==
  CASE v.t = "string"  -> v.s # <<>>
    [] v.t = "number"  -> v.n # 0 \/ v.f # 0
    [] v.t = "boolean" -> v.b
    [] v.t = "date"    -> TRUE
    [] OTHER           -> FALSE

DigitChar(d) ==
  CASE d = 0 -> "0" [] d = 1 -> "1" [] d = 2 -> "2" [] d = 3 -> "3"
    [] d = 4 -> "4" [] d = 5 -> "5" [] d = 6 -> "6" [] d = 7 -> "7"
    [] d = 8 -> "8" [] d = 9 -> "9"

DigitVal(c) ==
  CASE c = "0" -> 0 [] c = "1" -> 1 [] c = "2" -> 2 [] c = "3" -> 3
    [] c = "4" -> 4 [] c = "5" -> 5 [] c = "6" -> 6 [] c = "7" -> 7
    [] c = "8" -> 8 [] c = "9" -> 9

(* String(n) of an integer.                                                *)
RECURSIVE NatToString(_)
NatToString(n) ==
  IF n < 10 THEN <<DigitChar(n)>>
  ELSE NatToString(n \div 10) \o <<DigitChar(n % 10)>>

NumberToString(n) == IF n < 0 THEN <<"-">> \o NatToString(-n) ELSE NatToString(n)

(* The decimal digits of r/86400, for a fraction that has finitely many.   *)
RECURSIVE FractionDigits(_)
FractionDigits(r) ==
  IF r = 0 THEN <<>>
  ELSE <<DigitChar((r * 10) \div 86400)>> \o FractionDigits((r * 10) % 86400)

(* String(value)                                                           *)
StringOf(v) ==
  CASE v.t = "string"    -> v.s
    [] v.t = "number"    ->
         IF v.f = 0 THEN NumberToString(v.n)
         ELSE NumberToString(v.n) \o <<".">> \o FractionDigits(v.f)
    [] v.t = "boolean"   -> IF v.b THEN <<"t", "r", "u", "e">> ELSE <<"f", "a", "l", "s", "e">>
    [] v.t = "null"      -> <<"n", "u", "l", "l">>
    [] v.t = "undefined" -> <<"u", "n", "d", "e", "f", "i", "n", "e", "d">>

IsDigits(s) == s # <<>> /\ \A i \in 1..Len(s) : s[i] \in Digits

RECURSIVE ParseNat(_)
ParseNat(s) ==
  IF s = <<>> THEN 0
  ELSE 10 * ParseNat(SubSeq(s, 1, Len(s) - 1)) + DigitVal(s[Len(s)])

(* Number(value): Null stands for NaN.  The numeric text the model reads   *)
(* is a signed decimal integer; blank text converts to 0.                  *)
StringToNumber(s) ==
  LET x == trim(s) IN
    IF x = <<>> THEN Num(0)
    ELSE IF IsDigits(x) THEN Num(ParseNat(x))
    ELSE IF Head(x) = "-" /\ IsDigits(Tail(x)) THEN Num(-ParseNat(Tail(x)))
    ELSE IF Head(x) = "+" /\ IsDigits(Tail(x)) THEN Num(ParseNat(Tail(x)))
    ELSE Null

ToNumber(v) ==
  CASE v.t = "number"  -> v
    [] v.t = "boolean" -> Num(IF v.b THEN 1 ELSE 0)
    [] v.t = "string"  -> StringToNumber(v.s)
    [] v.t = "date"    -> Num(v.n)
    [] OTHER           -> Null

parseNumber(value) ==
  IF value.t \in {"undefined", "null"} \/ value = Str(<<>>) THEN Null
  ELSE ToNumber(value)

(* The variant of parseBooleanFlag that compares the text as typed.         *)
parseBooleanFlagAsTyped(value) ==
  IF value.t \in {"undefined", "null"} \/ value = Str(<<>>) THEN Null
  ELSE IF value.t = "boolean" THEN value
  ELSE IF value = Num(1) THEN Bool(TRUE)
  ELSE IF value = Num(0) THEN Bool(FALSE)
  ELSE IF value.t = "string"
       THEN IF value.s \in {<<"y">>, <<"y", "e", "s">>, <<"t", "r", "u", "e">>, <<"a", "d", "u", "l", "t">>} THEN Bool(TRUE)
            ELSE IF value.s \in {<<"n">>, <<"n", "o">>, <<"f", "a", "l", "s", "e">>, <<"y", "o", "u", "t", "h">>, <<"c", "h", "i", "l", "d">>}
                 THEN Bool(FALSE)
            ELSE Null
  ELSE Null

(* The variant of parseBooleanFlag without the closing `return null`.      *)
parseBooleanFlagNoReturn(value) ==
  IF value.t \in {"undefined", "null"} \/ value = Str(<<>>) THEN Null
  ELSE IF value.t = "boolean" THEN value
  ELSE IF value = Num(1) THEN Bool(TRUE)
  ELSE IF value = Num(0) THEN Bool(FALSE)
  ELSE IF value.t = "string"
       THEN LET normalized == toLowerCase(trim(value.s)) IN
              IF normalized = <<>> THEN Null
              ELSE IF normalized \in {<<"y">>, <<"y", "e", "s">>, <<"t", "r", "u", "e">>, <<"a", "d", "u", "l", "t">>}
                   THEN Bool(TRUE)
              ELSE IF normalized \in {<<"n">>, <<"n", "o">>, <<"f", "a", "l", "s", "e">>, <<"y", "o", "u", "t", "h">>, <<"c", "h", "i", "l", "d">>}
                   THEN Bool(FALSE)
              ELSE Undefined
  ELSE Undefined

parseBooleanFlag(value) ==
  IF value.t \in {"undefined", "null"} \/ value = Str(<<>>) THEN Null
  ELSE IF value.t = "boolean" THEN value
  ELSE IF value = Num(1) THEN Bool(TRUE)
  ELSE IF value = Num(0) THEN Bool(FALSE)
  ELSE IF value.t = "string"
       THEN LET normalized == toLowerCase(trim(value.s)) IN
              IF normalized = <<>> THEN Null
              ELSE IF normalized \in {<<"y">>, <<"y", "e", "s">>, <<"t", "r", "u", "e">>, <<"a", "d", "u", "l", "t">>}
                   THEN Bool(TRUE)
              ELSE IF normalized \in {<<"n">>, <<"n", "o">>, <<"f", "a", "l", "s", "e">>, <<"y", "o", "u", "t", "h">>, <<"c", "h", "i", "l", "d">>}
                   THEN Bool(FALSE)
              ELSE Null
  ELSE Null

hasText(value) ==
  CASE value.t \in {"undefined", "null"} -> FALSE
    [] value.t = "string" -> Len(trim(value.s)) > 0
    [] OTHER -> TRUE

---------------------------------------------------------------------------
(* Calendar arithmetic of the JavaScript Date object (proleptic Gregorian  *)
(* calendar).  A runtime's local time is UTC plus a fixed offset of `off`  *)
(* minutes.                                                                *)

DaysFromCivil(y, m, d) ==
  LET yy  == IF m <= 2 THEN y - 1 ELSE y
      era == yy \div 400
      yoe == yy - era * 400
      mp  == IF m > 2 THEN m - 3 ELSE m + 9
      doy == (153 * mp + 2) \div 5 + d - 1
      doe == yoe * 365 + yoe \div 4 - yoe \div 100 + doy
  IN era * 146097 + doe - 719468

CivilFromDays(z) ==
  LET zz  == z + 719468
      era == zz \div 146097
      doe == zz - era * 146097
      yoe == (doe - doe \div 1460 + doe \div 36524 - doe \div 146096) \div 365
      doy == doe - (365 * yoe + yoe \div 4 - yoe \div 100)
      mp  == (5 * doy + 2) \div 153
      d   == doy - (153 * mp + 2) \div 5 + 1
      m   == IF mp < 10 THEN mp + 3 ELSE mp - 9
  IN [y |-> yoe + era * 400 + (IF m <= 2 THEN 1 ELSE 0), m |-> m, d |-> d]

(* Date.UTC(year, monthIndex, day, hour, minute): fields out of range      *)
(* carry over, and a year of 0..99 means 1900 + year.                      *)
DateUTC(year, monthIndex, day, hour, minute) ==
  LET y0 == IF year >= 0 /\ year <= 99 THEN 1900 + year ELSE year
      y  == y0 + monthIndex \div 12
      m  == (monthIndex % 12) + 1
  IN (DaysFromCivil(y, m, 1) + day - 1) * 1440 + hour * 60 + minute

(* new Date(year, monthIndex, day): midnight of that day in local time.    *)
NewLocalDate(year, monthIndex, day, off) ==
  DateUTC(year, monthIndex, day, 0, 0) - off

getFullYear(t, off) == CivilFromDays((t + off) \div 1440).y
getMonth(t, off)    == CivilFromDays((t + off) \div 1440).m - 1
getDate(t, off)     == CivilFromDays((t + off) \div 1440).d

getUTCFullYear(t) == CivilFromDays(t \div 1440).y
getUTCMonth(t)    == CivilFromDays(t \div 1440).m - 1
getUTCDate(t)     == CivilFromDays(t \div 1440).d
getUTCDay(t)      == (t \div 1440 + 4) % 7

(* date.setUTCDate(n): day n of the date's UTC month, the time of day kept. *)
setUTCDate(t, n) ==
  DateUTC(getUTCFullYear(t), getUTCMonth(t), n, 0, t % 1440)

(* The date and time record of serial day `date` and second `time`.        *)
dateCode(date, time) ==
  IF date = 60 THEN [y |-> 1900, m |-> 2, d |-> 29, T |-> time]
  ELSE IF date = 0 THEN [y |-> 1900, m |-> 1, d |-> 0, T |-> time]
  ELSE LET c == CivilFromDays(DaysFromCivil(1900, 1, 1)
                              + (IF date > 60 THEN date - 1 ELSE date) - 1)
       IN [y |-> c.y, m |-> c.m, d |-> c.d, T |-> time]

(* XLSX.SSF.parse_date_code(v): the 1900 date system with its fictitious   *)
(* 29 February 1900; the date is that of the whole part v|0 and T the      *)
(* seconds of the day; Null outside the range.                             *)
parse_date_code(v) ==
  IF v.n > 2958465 \/ (v.n = 2958465 /\ v.f > 0) \/ v.n < 0 THEN Null
  ELSE dateCode(v.n, v.f)

RECURSIVE SkipSpace(_, _)
SkipSpace(s, i) ==
  IF i <= Len(s) /\ s[i] \in WhiteSpace THEN SkipSpace(s, i + 1) ELSE i

DigitsAt(s, i, n) == i + n - 1 <= Len(s) /\ IsDigits(SubSeq(s, i, i + n - 1))

CharAt(s, i, cs) == i <= Len(s) /\ s[i] \in cs

NumAt(s, i, n) == ParseNat(SubSeq(s, i, i + n - 1))

(* The match of                                                            *)
(* /^(\d{4})-(\d{2})-(\d{2})\s+(\d{1,2}):(\d{2})\s*([AP]M)\s+([+-])(\d{2}):(\d{2})$/i *)
(* against `s`, scanned left to right: h is the position of the hour, hn   *)
(* the number of its digits, a the position of the AM/PM mark and g that   *)
(* of the sign; ok tells whether the text matches.                         *)
StampFrom(s, h, hn, a, g) ==
  [ok |-> /\ DigitsAt(s, 1, 4) /\ CharAt(s, 5, {"-"})
          /\ DigitsAt(s, 6, 2) /\ CharAt(s, 8, {"-"})
          /\ DigitsAt(s, 9, 2)
          /\ h > 11
          /\ DigitsAt(s, h, hn) /\ CharAt(s, h + hn, {":"})
          /\ DigitsAt(s, h + hn + 1, 2)
          /\ CharAt(s, a, {"A", "a", "P", "p"})
          /\ CharAt(s, a + 1, {"M", "m"})
          /\ g > a + 2
          /\ CharAt(s, g, {"+", "-"})
          /\ DigitsAt(s, g + 1, 2) /\ CharAt(s, g + 3, {":"})
          /\ DigitsAt(s, g + 4, 2)
          /\ Len(s) = g + 5,
   h |-> h, hn |-> hn, a |-> a, g |-> g]

StampMark(s, h, hn, a) == StampFrom(s, h, hn, a, SkipSpace(s, a + 2))

StampHour(s, h, hn) == StampMark(s, h, hn, SkipSpace(s, h + hn + 3))

OffsetStampMatch(s) ==
  StampHour(s, SkipSpace(s, 11),
            IF DigitsAt(s, SkipSpace(s, 11), 2) THEN 2 ELSE 1)

(* new Date(y, m - 1, d) when (y, m, d) is a date of the calendar, else    *)
(* an invalid date (Null).                                                 *)
localDateIfValid(y, m, d, off) ==
  IF /\ m >= 1 /\ m <= 12 /\ d >= 1
     /\ CivilFromDays(DaysFromCivil(y, m, d)) = [y |-> y, m |-> m, d |-> d]
  THEN DateAt(NewLocalDate(y, m - 1, d, off))
  ELSE Null

(* parseISO(text) of date-fns for the calendar-date form YYYY-MM-DD:       *)
(* midnight of that day in local time; Null for any other text.            *)
parseISO(s, off) ==
  IF /\ Len(s) = 10 /\ DigitsAt(s, 1, 4) /\ CharAt(s, 5, {"-"})
     /\ DigitsAt(s, 6, 2) /\ CharAt(s, 8, {"-"}) /\ DigitsAt(s, 9, 2)
  THEN localDateIfValid(NumAt(s, 1, 4), NumAt(s, 6, 2), NumAt(s, 9, 2), off)
  ELSE Null

(* The variant of dateOfExcel that keeps the time of day.                  *)
dateOfExcelWithTime(excelDate, off) ==
  IF excelDate # Null
  THEN DateAt(NewLocalDate(excelDate.y, excelDate.m - 1, excelDate.d, off)
              + (excelDate.T \div 60))
  ELSE Null

(* The branch `if (excelDate)` of parseDateValue.                          *)
dateOfExcel(excelDate, off) ==
  IF excelDate # Null
  THEN DateAt(NewLocalDate(excelDate.y, excelDate.m - 1, excelDate.d, off))
  ELSE Null

(* The variant of dateOfStamp that adds the stated offset.                 *)
dateOfStampOffsetAdded(trimmed, m) ==
  LET year   == NumAt(trimmed, 1, 4)
      month  == NumAt(trimmed, 6, 2)
      day    == NumAt(trimmed, 9, 2)
      hour0  == NumAt(trimmed, m.h, m.hn)
      minute == NumAt(trimmed, m.h + m.hn + 1, 2)
      ampm   == trimmed[m.a]
      sign   == IF trimmed[m.g] = "+" THEN 1 ELSE -1
      tzH    == NumAt(trimmed, m.g + 1, 2)
      tzM    == NumAt(trimmed, m.g + 4, 2)
      hour   == IF ampm \in {"A", "a"} THEN hour0 % 12 ELSE (hour0 % 12) + 12
      localUtc == DateUTC(year, month - 1, day, hour, minute)
      offsetMinutes == sign * (tzH * 60 + tzM)
  IN DateAt(localUtc + offsetMinutes)

(* The branch `if (m)` of parseDateValue: m is the match of the stamp.     *)
dateOfStamp(trimmed, m) ==
  LET year   == NumAt(trimmed, 1, 4)
      month  == NumAt(trimmed, 6, 2)
      day    == NumAt(trimmed, 9, 2)
      hour0  == NumAt(trimmed, m.h, m.hn)
      minute == NumAt(trimmed, m.h + m.hn + 1, 2)
      ampm   == trimmed[m.a]
      sign   == IF trimmed[m.g] = "+" THEN 1 ELSE -1
      tzH    == NumAt(trimmed, m.g + 1, 2)
      tzM    == NumAt(trimmed, m.g + 4, 2)
      hour   == IF ampm \in {"A", "a"} THEN hour0 % 12 ELSE (hour0 % 12) + 12
      localUtc == DateUTC(year, month - 1, day, hour, minute)
      offsetMinutes == sign * (tzH * 60 + tzM)
  IN DateAt(localUtc - offsetMinutes)

(* The branch `typeof value === 'string'` of parseDateValue, after the     *)
(* trim.                                                                   *)
dateOfText(trimmed, m, off) ==
  IF trimmed = <<>> THEN Null
  ELSE IF m.ok THEN dateOfStamp(trimmed, m)
  ELSE parseISO(trimmed, off)

parseDateValue(value, off) ==
  IF ~Truthy(value) /\ value # Num(0) THEN Null
  ELSE IF value.t = "date" THEN value
  ELSE IF value.t = "number" THEN dateOfExcel(parse_date_code(value), off)
  ELSE IF value.t = "string"
       THEN dateOfText(trim(value.s), OffsetStampMatch(trim(value.s)), off)
  ELSE Null

---------------------------------------------------------------------------
(* Row parser.  A raw record is the sequence of its (header, value)        *)
(* entries in insertion order; a Student Record maps every field name to   *)
(* a value, Undefined for a field never assigned.                          *)

Fields ==
  {"firstName", "lastName", "studentName", "schoolName", "homeZipCode",
   "county", "grade", "gender", "age", "firstVisitDate", "siblings",
   "parentsGuardians", "careerInterest", "hobbies", "isAdult", "teamName",
   "teamNumber", "email", "checkedIn", "checkedOut", "checkInDate",
   "checkOutDate", "elapsedTime"}

EmptyRecord == [f \in Fields |-> Undefined]

(* The switch of parseRow: the value assigned to record[mappedKey].        *)
coerceField(mappedKey, rawValue, off) ==
  CASE mappedKey \in {"checkedIn", "checkedOut", "isAdult"} ->
         parseBooleanFlag(rawValue)
    [] mappedKey \in {"age", "siblings", "parentsGuardians", "elapsedTime"} ->
         parseNumber(rawValue)
    [] mappedKey \in {"firstVisitDate", "checkInDate", "checkOutDate"} ->
         parseDateValue(rawValue, off)
    [] mappedKey = "email" ->
         Str(trim(StringOf(rawValue)))
    [] OTHER ->
         IF rawValue.t \in {"undefined", "null"} THEN Undefined
         ELSE Str(trim(StringOf(rawValue)))

(* The test that sets hasMappedValue: `!== null` for flags and numbers,    *)
(* truthiness for dates and text.                                          *)
countsAsMapped(mappedKey, coerced) ==
  IF mappedKey \in {"checkedIn", "checkedOut", "isAdult", "age",
                    "siblings", "parentsGuardians", "elapsedTime"}
  THEN coerced # Null
  ELSE Truthy(coerced)

assignField(acc, mappedKey, coerced) ==
  [record |-> [acc.record EXCEPT ![mappedKey] = coerced],
   hasMappedValue |-> acc.hasMappedValue \/ countsAsMapped(mappedKey, coerced)]

parseMapped(acc, mappedKey, rawValue, off) ==
  IF mappedKey = "none" THEN acc
  ELSE assignField(acc, mappedKey, coerceField(mappedKey, rawValue, off))

(* One iteration of Object.entries(row).forEach in parseRow: acc is the    *)
(* record under construction and hasMappedValue.  An empty normalized key  *)
(* maps to no field.                                                       *)
parseEntry(acc, key, rawValue, off) ==
  parseMapped(acc, mappedKeyOf(normalizeHeaderKey(trim(key))), rawValue, off)

RECURSIVE parseEntries(_, _, _)
parseEntries(row, n, off) ==
  IF n = 0 THEN [record |-> EmptyRecord, hasMappedValue |-> FALSE]
  ELSE parseEntry(parseEntries(row, n - 1, off), row[n][1], row[n][2], off)

(* [firstName, lastName].filter(Boolean).join(' ').trim()                  *)
compositeName(record) ==
  LET f == IF Truthy(record.firstName) THEN record.firstName.s ELSE <<>>
      l == IF Truthy(record.lastName) THEN record.lastName.s ELSE <<>>
  IN trim(IF f # <<>> /\ l # <<>> THEN f \o <<" ">> \o l ELSE f \o l)

(* The tail of parseRow: the composite name, and null (ok = FALSE) when no *)
(* field was mapped.                                                       *)
finishRow(acc, composite) ==
  [ok |-> acc.hasMappedValue,
   record |-> IF ~Truthy(acc.record.studentName) /\ composite # <<>>
              THEN [acc.record EXCEPT !.studentName = Str(composite)]
              ELSE acc.record]

withComposite(acc) == finishRow(acc, compositeName(acc.record))

parseRow(row, off) == withComposite(parseEntries(row, Len(row), off))

---------------------------------------------------------------------------
(* File load.  A file is [name, kind, rows]: kind "nodata" is a read with  *)
(* no result, "corrupt" a workbook XLSX.read rejects or one with no sheet; *)
(* rows is what XLSX.utils.sheet_to_json(worksheet, {header: 1,            *)
(* defval: null, raw: true, blankrows: false}) returns for the first sheet.*)

(* typeof cell === 'string' || typeof cell === 'number'                    *)
(*   ? String(cell).trim() : ''                                            *)
cellLabel(cell) ==
  IF cell.t \in {"string", "number"} THEN trim(StringOf(cell)) ELSE <<>>

labelsOf(row) ==
  SelectSeq([i \in 1..Len(row) |-> cellLabel(row[i])], LAMBDA l : l # <<>>)

RECURSIVE headerScore(_, _)
headerScore(labels, n) ==
  IF n = 0 THEN 0
  ELSE headerScore(labels, n - 1)
       + (IF mappedKeyOf(normalizeHeaderKey(labels[n])) # "none" THEN 1 ELSE 0)

(* The variant of betterHeader in which a later row of equal score takes   *)
(* the selection.                                                          *)
betterHeaderOnTies(best, index, labels, score) ==
  IF labels # <<>> /\ score >= best.bestScore /\ score >= 2
  THEN [bestHeaderIndex |-> index, bestScore |-> score]
  ELSE best

(* One iteration of rows.forEach((row, index) => ...): index is zero-based *)
(* as in the source.                                                       *)
betterHeader(best, index, labels, score) ==
  IF labels # <<>> /\ score > best.bestScore /\ score >= 2
  THEN [bestHeaderIndex |-> index, bestScore |-> score]
  ELSE best

scoreRow(best, index, labels) ==
  betterHeader(best, index, labels, headerScore(labels, Len(labels)))

RECURSIVE detectHeader(_, _)
detectHeader(rows, n) ==
  IF n = 0 THEN [bestHeaderIndex |-> 0, bestScore |-> -1]
  ELSE scoreRow(detectHeader(rows, n - 1), n - 1, labelsOf(rows[n]))

(* record[header] = value: an existing key keeps its place and takes the   *)
(* new value; an empty header and an undefined value add nothing.          *)
setKey(record, header, value) ==
  IF header = <<>> \/ value = Undefined THEN record
  ELSE IF \E j \in 1..Len(record) : record[j][1] = header
       THEN [j \in 1..Len(record) |->
               IF record[j][1] = header THEN <<header, value>> ELSE record[j]]
  ELSE Append(record, <<header, value>>)

(* headerLabels.forEach over the first n columns.                          *)
RECURSIVE rawRecord(_, _, _)
rawRecord(headerLabels, row, n) ==
  IF n = 0 THEN <<>>
  ELSE setKey(rawRecord(headerLabels, row, n - 1), headerLabels[n],
              IF n <= Len(row) THEN row[n] ELSE Undefined)

someHasText(values) == \E j \in 1..Len(values) : hasText(values[j])

recordHasText(rec) == \E j \in 1..Len(rec) : hasText(rec[j][2])

(* rawRecords: one raw record per data row holding text, kept when one of  *)
(* its values holds text.                                                  *)
rawRecordsOf(headerLabels, dataRows) ==
  SelectSeq([r \in 1..Len(dataRows) |->
               rawRecord(headerLabels, dataRows[r], Len(headerLabels))],
            recordHasText)

(* parsed: rawRecords.map(parseRow).filter(row => row !== null)            *)
parsedOf(rowResults) ==
  [r \in 1..Len(SelectSeq(rowResults, LAMBDA res : res.ok)) |->
     SelectSeq(rowResults, LAMBDA res : res.ok)[r].record]

parseRaw(rawRecords, off) ==
  parsedOf([r \in 1..Len(rawRecords) |-> parseRow(rawRecords[r], off)])

headerLabelsOf(headerRow) ==
  [c \in 1..Len(headerRow) |-> cellLabel(headerRow[c])]

(* The Student Records of the rows after the header row at the zero-based  *)
(* index bestHeaderIndex.                                                  *)
dataRecords(rows, bestHeaderIndex, off) ==
  parseRaw(rawRecordsOf(headerLabelsOf(rows[bestHeaderIndex + 1]),
                        SelectSeq(SubSeq(rows, bestHeaderIndex + 2, Len(rows)),
                                  someHasText)),
           off)

(* The body of the try block of reader.onload from the header detection    *)
(* on: the Student Records parsed from `rows`.                             *)
parseSheet(rows, off) ==
  dataRecords(rows, detectHeader(rows, Len(rows)).bestHeaderIndex, off)

NoError == "null"
ReadError == "Unable to read the selected file."
ParseError ==
  "Failed to parse the Excel file. Please verify the template and try again."

(* handleFileUpload: the chosen file's name is shown and its read starts.  *)
(* The change event of the file input fires when the chosen file is not    *)
(* the one chosen last.                                                    *)
HandleFileUpload(file) ==
  /\ Len(pending) < MaxPending
  /\ file.name # fileName
  /\ fileName' = file.name
  /\ pending' = Append(pending, file)
  /\ UNCHANGED <<tz, upload, students, error,
               selectedRecordKey, selectedRecordName, selectedActiveId>>

(* reader.onload of the i-th read in flight.                               *)
ReaderOnload(i) ==
  LET file == pending[i] IN
  /\ file.kind # "unreadable"
  /\ pending' = [j \in 1..(Len(pending) - 1) |->
                   IF j < i THEN pending[j] ELSE pending[j + 1]]
  /\ IF file.kind = "nodata"
     THEN /\ error' = ReadError
          /\ UNCHANGED students
     ELSE IF file.kind = "corrupt" \/ file.rows = <<>>
     THEN /\ error' = ParseError
          /\ students' = <<>>
     ELSE /\ students' = parseSheet(file.rows, tz)
          /\ error' = NoError
  /\ UNCHANGED <<tz, upload, fileName,
               selectedRecordKey, selectedRecordName, selectedActiveId>>

(* The read of pending[i] fails: the reader has no error handler, so the   *)
(* event passes without a state update.                                    *)
ReaderOnerror(i) ==
  /\ pending[i].kind = "unreadable"
  /\ pending' = [j \in 1..(Len(pending) - 1) |->
                   IF j < i THEN pending[j] ELSE pending[j + 1]]
  /\ UNCHANGED <<tz, upload, fileName, students, error,
               selectedRecordKey, selectedRecordName, selectedActiveId>>

---------------------------------------------------------------------------
(* Derived views: pure functions of the Student Record list.               *)

(* x ?? '' inside a template literal.                                      *)
orEmpty(v) == IF v.t \in {"undefined", "null"} THEN <<>> ELSE StringOf(v)

(* s.studentName || `${s.firstName ?? ''} ${s.lastName ?? ''}`             *)
nameOrComposite(r) ==
  IF Truthy(r.studentName) THEN r.studentName.s
  ELSE orEmpty(r.firstName) \o <<" ">> \o orEmpty(r.lastName)

recordName(r) == trim(nameOrComposite(r))

(* !!ci && isValidDate(ci): a stored date is always a valid one.           *)
hasValidDate(v) == v.t = "date"

profileKey(r) ==
  toLowerCase(recordName(r)) \o <<"|">>
  \o (IF r.age.t \in {"undefined", "null"} THEN <<>>
      ELSE toLowerCase(trim(StringOf(r.age)))) \o <<"|">>
  \o orEmpty(r.age) \o <<"|">>
  \o orEmpty(r.teamName) \o <<"|">>
  \o orEmpty(r.teamNumber)

(* key.replace(/\|/g, '')                                                  *)
withoutBars(key) == SelectSeq(key, LAMBDA c : c # "|")

profileOf(r) ==
  [name |-> recordName(r), county |-> r.county, homeZipCode |-> r.homeZipCode,
   schoolName |-> r.schoolName, age |-> r.age, grade |-> r.grade,
   gender |-> r.gender]

mapHas(map, key) == \E j \in 1..Len(map) : map[j].key = key

(* One iteration of students.forEach in uniqueProfiles; the Map is the     *)
(* sequence of its [key, value] entries in insertion order.                *)
addProfile(map, r) ==
  IF recordName(r) = <<>> \/ ~hasValidDate(r.checkInDate) THEN map
  ELSE IF withoutBars(profileKey(r)) = <<>> THEN map
  ELSE IF ~mapHas(map, profileKey(r))
       THEN Append(map, [key |-> profileKey(r), value |-> profileOf(r)])
  ELSE map

RECURSIVE uniqueProfilesUpTo(_, _)
uniqueProfilesUpTo(studs, n) ==
  IF n = 0 THEN <<>> ELSE addProfile(uniqueProfilesUpTo(studs, n - 1), studs[n])

uniqueProfiles(studs) == uniqueProfilesUpTo(studs, Len(studs))

uniqueStudentsCount(studs) == Len(uniqueProfiles(studs))

(* bucket[k] = (bucket[k] || 0) + 1; a bucket maps its keys to counts and  *)
(* the order of its keys is left out.                                      *)
countKey(bucket, k) ==
  IF k \in DOMAIN bucket THEN [bucket EXCEPT ![k] = @ + 1]
  ELSE [x \in DOMAIN bucket \cup {k} |-> IF x = k THEN 1 ELSE bucket[x]]

(* `if (!key) return`, and `if (key == null) return` for the age.          *)
skipsKey(field, key) ==
  IF field = "age" THEN key.t \in {"undefined", "null"} ELSE ~Truthy(key)

(* uniqueProfiles.forEach of a breakdown over the first n profiles.        *)
RECURSIVE countsUpTo(_, _, _)
countsUpTo(profiles, field, n) ==
  IF n = 0 THEN <<>>
  ELSE IF skipsKey(field, profiles[n].value[field])
       THEN countsUpTo(profiles, field, n - 1)
  ELSE countKey(countsUpTo(profiles, field, n - 1),
                StringOf(profiles[n].value[field]))

(* The profiles of a list in which every record stands for itself.         *)
everyRecord(studs) ==
  [j \in 1..Len(studs) |-> [key |-> profileKey(studs[j]), value |-> profileOf(studs[j])]]

(* The variant of countyCounts that counts the records.                    *)
countyCountsOfRecords(studs) ==
  countsUpTo(everyRecord(studs), "county", Len(studs))

countyCounts(studs) ==
  countsUpTo(uniqueProfiles(studs), "county", uniqueStudentsCount(studs))

gradeCounts(studs) ==
  countsUpTo(uniqueProfiles(studs), "grade", uniqueStudentsCount(studs))

genderCounts(studs) ==
  countsUpTo(uniqueProfiles(studs), "gender", uniqueStudentsCount(studs))

zipCounts(studs) ==
  countsUpTo(uniqueProfiles(studs), "homeZipCode", uniqueStudentsCount(studs))

schoolCounts(studs) ==
  countsUpTo(uniqueProfiles(studs), "schoolName", uniqueStudentsCount(studs))

ageCounts(studs) ==
  countsUpTo(uniqueProfiles(studs), "age", uniqueStudentsCount(studs))

(* The variant of countsAsCheckIn that leaves the flag out.                *)
countsAsCheckInAnyFlag(r) ==
  recordName(r) # <<>> /\ hasValidDate(r.checkInDate)

(* hasName && checkedIn && hasCheckInDate                                  *)
countsAsCheckIn(r) ==
  recordName(r) # <<>> /\ r.checkedIn = Bool(TRUE) /\ hasValidDate(r.checkInDate)

(* students.filter(...).length                                             *)
totalCheckIns(studs) == Len(SelectSeq(studs, countsAsCheckIn))

(* (r.email || r.studentName || `${first} ${last}`).trim().toLowerCase()   *)
activeId(r) ==
  toLowerCase(trim(IF Truthy(r.email) THEN r.email.s ELSE nameOrComposite(r)))

(* r.checkInDate ?? null                                                   *)
orNull(v) == IF v.t = "undefined" THEN Null ELSE v

(* The entry latestByKey.set stores for record r.                          *)
activeEntry(r) ==
  [id |-> activeId(r), name |-> nameOrComposite(r), email |-> r.email,
   teamName |-> r.teamName, teamNumber |-> r.teamNumber,
   checkInDate |-> orNull(r.checkInDate)]

(* The variant of displaces in which an equal date also replaces.          *)
displacesOnTies(ci, existing) ==
  \/ /\ Truthy(ci) /\ Truthy(existing.checkInDate)
     /\ ci.n >= existing.checkInDate.n
  \/ /\ ~Truthy(existing.checkInDate) /\ Truthy(ci)

(* The condition under which a record replaces the existing entry.         *)
displaces(ci, existing) ==
  \/ /\ Truthy(ci) /\ Truthy(existing.checkInDate)
     /\ ci.n > existing.checkInDate.n
  \/ /\ ~Truthy(existing.checkInDate) /\ Truthy(ci)

(* The variant of addActive that does not look at checkedOut.              *)
addActiveCheckedOut(map, r) ==
  LET id == activeId(r)
      at == {j \in 1..Len(map) : map[j].key = id}
  IN IF r.checkedIn # Bool(TRUE) THEN map
     ELSE IF id = <<>> THEN map
     ELSE IF at = {} THEN Append(map, [key |-> id, value |-> activeEntry(r)])
     ELSE IF displaces(orNull(r.checkInDate), map[CHOOSE j \in at : TRUE].value)
          THEN [j \in 1..Len(map) |->
                  IF j \in at THEN [key |-> id, value |-> activeEntry(r)]
                  ELSE map[j]]
     ELSE map

(* One iteration of students.forEach in activeCheckIns; the Map is the     *)
(* sequence of its [key, value] entries in insertion order.                *)
addActive(map, r) ==
  LET id == activeId(r)
      at == {j \in 1..Len(map) : map[j].key = id}
  IN IF r.checkedIn # Bool(TRUE) \/ r.checkedOut = Bool(TRUE) THEN map
     ELSE IF id = <<>> THEN map
     ELSE IF at = {} THEN Append(map, [key |-> id, value |-> activeEntry(r)])
     ELSE IF displaces(orNull(r.checkInDate), map[CHOOSE j \in at : TRUE].value)
          THEN [j \in 1..Len(map) |->
                  IF j \in at THEN [key |-> id, value |-> activeEntry(r)]
                  ELSE map[j]]
     ELSE map

RECURSIVE latestByKeyUpTo(_, _)
latestByKeyUpTo(studs, n) ==
  IF n = 0 THEN <<>> ELSE addActive(latestByKeyUpTo(studs, n - 1), studs[n])

latestByKey(studs) == latestByKeyUpTo(studs, Len(studs))

(* The entries of activeCheckIns; their display order is not modelled.     *)
activeCheckIns(studs) ==
  {latestByKey(studs)[j].value : j \in 1..Len(latestByKey(studs))}

(* weekStartMs(d): in minutes.                                             *)
weekStartMs(d, off) ==
  LET date   == DateUTC(getFullYear(d, off), getMonth(d, off), getDate(d, off), 0, 0)
      dayNum == IF getUTCDay(date) = 0 THEN 7 ELSE getUTCDay(date)
  IN setUTCDate(date, getUTCDate(date) + 1 - dayNum)

(* `${dt.getUTCMonth() + 1}/${dt.getUTCDate()}/${dt.getUTCFullYear()}`     *)
fmtDate(dt) ==
  NumberToString(getUTCMonth(dt) + 1) \o <<"/">>
  \o NumberToString(getUTCDate(dt)) \o <<"/">>
  \o NumberToString(getUTCFullYear(dt))

getWeekRange(d, off) ==
  LET date   == DateUTC(getFullYear(d, off), getMonth(d, off), getDate(d, off), 0, 0)
      dayNum == IF getUTCDay(date) = 0 THEN 7 ELSE getUTCDay(date)
      start  == setUTCDate(date, getUTCDate(date) + 1 - dayNum)
      end    == setUTCDate(start, getUTCDate(start) + 6)
  IN fmtDate(start) \o <<" ", "-", " ">> \o fmtDate(end)

(* weekMap after students.forEach: week start -> count.                    *)
weekMap(studs, off) ==
  LET dated == {j \in 1..Len(studs) : hasValidDate(studs[j].checkInDate)}
      keys  == {weekStartMs(studs[j].checkInDate.n, off) : j \in dated}
  IN [k \in keys |->
        Cardinality({j \in dated : weekStartMs(studs[j].checkInDate.n, off) = k})]

RECURSIVE sortedKeys(_)
sortedKeys(keys) ==
  IF keys = {} THEN <<>>
  ELSE LET least == CHOOSE k \in keys : \A x \in keys : k <= x
       IN <<least>> \o sortedKeys(keys \ {least})

(* ordered[label] = count: a label already present takes the new count.    *)
putLabel(ordered, label, count) ==
  IF \E j \in 1..Len(ordered) : ordered[j].label = label
  THEN [j \in 1..Len(ordered) |->
          IF ordered[j].label = label
          THEN [label |-> label, count |-> count] ELSE ordered[j]]
  ELSE Append(ordered, [label |-> label, count |-> count])

RECURSIVE weekOrdered(_, _, _, _)
weekOrdered(map, sorted, n, off) ==
  IF n = 0 THEN <<>>
  ELSE putLabel(weekOrdered(map, sorted, n - 1, off),
                getWeekRange(sorted[n], off), map[sorted[n]])

(* weekCounts: the [label, count] entries in the order they are emitted.   *)
weekCounts(studs, off) ==
  LET map    == weekMap(studs, off)
      sorted == sortedKeys(DOMAIN map)
  IN weekOrdered(map, sorted, Len(sorted), off)

(* The label under which weekCounts counts a check-in at instant d.        *)
weekLabelOf(d, off) == getWeekRange(weekStartMs(d, off), off)

MonthNames ==
  <<<<"J", "a", "n", "u", "a", "r", "y">>, <<"F", "e", "b", "r", "u", "a", "r", "y">>, <<"M", "a", "r", "c", "h">>, <<"A", "p", "r", "i", "l">>, <<"M", "a", "y">>, <<"J", "u", "n", "e">>, <<"J", "u", "l", "y">>,
    <<"A", "u", "g", "u", "s", "t">>, <<"S", "e", "p", "t", "e", "m", "b", "e", "r">>, <<"O", "c", "t", "o", "b", "e", "r">>, <<"N", "o", "v", "e", "m", "b", "e", "r">>, <<"D", "e", "c", "e", "m", "b", "e", "r">>>>

(* d.toLocaleString('en-US', { month: 'long', year: 'numeric' })           *)
fmtMonth(d, off) ==
  MonthNames[getMonth(d, off) + 1] \o <<" ">> \o NumberToString(getFullYear(d, off))

(* The digits of n, with zeros in front up to the length len.              *)
RECURSIVE addLeadingZeros(_, _)
addLeadingZeros(text, len) ==
  IF Len(text) >= len THEN text ELSE addLeadingZeros(<<"0">> \o text, len)

(* format(date, 'yyyy-MM'): year and month of the local date.              *)
formatYearMonth(d, off) ==
  addLeadingZeros(NumberToString(getFullYear(d, off)), 4) \o <<"-">>
  \o addLeadingZeros(NumberToString(getMonth(d, off) + 1), 2)

(* The variant of addMonth that counts a year-month once.                  *)
addMonthOnce(map, r, off) ==
  IF ~hasValidDate(r.checkInDate) THEN map
  ELSE IF mapHas(map, formatYearMonth(r.checkInDate.n, off)) THEN map
  ELSE Append(map, [key |-> formatYearMonth(r.checkInDate.n, off), count |-> 1])

(* if (record.checkInDate) addDate(record.checkInDate)                     *)
addMonth(map, r, off) ==
  IF ~hasValidDate(r.checkInDate) THEN map
  ELSE IF mapHas(map, formatYearMonth(r.checkInDate.n, off))
       THEN [j \in 1..Len(map) |->
               IF map[j].key = formatYearMonth(r.checkInDate.n, off)
               THEN [map[j] EXCEPT !.count = @ + 1] ELSE map[j]]
  ELSE Append(map, [key |-> formatYearMonth(r.checkInDate.n, off), count |-> 1])

(* monthMap after students.forEach: entries in order of first appearance.  *)
RECURSIVE monthMapUpTo(_, _, _)
monthMapUpTo(studs, n, off) ==
  IF n = 0 THEN <<>> ELSE addMonth(monthMapUpTo(studs, n - 1, off), studs[n], off)

(* The rank of a key's character; the hyphen sorts before the digits.      *)
charRank(c) == IF c \in Digits THEN 1 + DigitVal(c) ELSE 0

(* a.localeCompare(b) for year-month keys: -1, 0 or 1.                     *)
RECURSIVE localeCompare(_, _)
localeCompare(a, b) ==
  IF a = <<>> /\ b = <<>> THEN 0
  ELSE IF a = <<>> THEN -1
  ELSE IF b = <<>> THEN 1
  ELSE IF charRank(Head(a)) < charRank(Head(b)) THEN -1
  ELSE IF charRank(Head(a)) > charRank(Head(b)) THEN 1
  ELSE localeCompare(Tail(a), Tail(b))

(* The entries with e placed after the last entry that is not after it.    *)
RECURSIVE insertEntry(_, _)
insertEntry(sorted, e) ==
  IF sorted = <<>> THEN <<e>>
  ELSE IF localeCompare(sorted[Len(sorted)].key, e.key) <= 0 THEN Append(sorted, e)
  ELSE Append(insertEntry(SubSeq(sorted, 1, Len(sorted) - 1), e), sorted[Len(sorted)])

(* The variant of sortEntries that leaves the entries as they came.        *)
entriesAsListed(entries) == entries

(* Array.from(monthMap.entries()).sort(([a], [b]) => a.localeCompare(b))   *)
RECURSIVE sortEntries(_)
sortEntries(entries) ==
  IF entries = <<>> THEN <<>>
  ELSE insertEntry(sortEntries(SubSeq(entries, 1, Len(entries) - 1)),
                   entries[Len(entries)])

(* const label = isValidDate(d) ? fmtMonth(d) : ym, d = parseISO(ym-01)    *)
monthLabel(ym, off) ==
  IF parseISO(ym \o <<"-", "0", "1">>, off).t = "date"
  THEN fmtMonth(parseISO(ym \o <<"-", "0", "1">>, off).n, off) ELSE ym

RECURSIVE monthOrdered(_, _, _)
monthOrdered(sorted, n, off) ==
  IF n = 0 THEN <<>>
  ELSE putLabel(monthOrdered(sorted, n - 1, off),
                monthLabel(sorted[n].key, off), sorted[n].count)

(* monthCounts: the [label, count] entries in the order they are emitted.  *)
monthCounts(studs, off) ==
  monthOrdered(sortEntries(monthMapUpTo(studs, Len(studs), off)),
               Len(sortEntries(monthMapUpTo(studs, Len(studs), off))), off)

---------------------------------------------------------------------------
(* The Uploaded Records table and the selections of the user.              *)

(* Boolean((s.schoolName || '').trim())                                    *)
hasTrimmedText(v) == Truthy(v) /\ trim(v.s) # <<>>

hasRequired(s) ==
  /\ recordName(s) # <<>>
  /\ hasTrimmedText(s.schoolName)
  /\ s.age.t \notin {"null", "undefined"}
  /\ s.isAdult.t \notin {"null", "undefined"}
  /\ hasTrimmedText(s.gender)

(* name.toLowerCase() | age | teamName | teamNumber, each in lower case.    *)
rowKey(s) ==
  toLowerCase(recordName(s)) \o <<"|">>
  \o toLowerCase(orEmpty(s.age)) \o <<"|">>
  \o toLowerCase(orEmpty(s.teamName)) \o <<"|">>
  \o toLowerCase(orEmpty(s.teamNumber))

(* firstRows: the first record of every key among those with the required  *)
(* fields; the table shows twenty of them.                                 *)
firstRows(studs) ==
  {i \in 1..Len(studs) :
     /\ hasRequired(studs[i])
     /\ \A h \in 1..(i - 1) : hasRequired(studs[h]) => rowKey(studs[h]) # rowKey(studs[i])}

shownRows(studs) ==
  {i \in firstRows(studs) : Cardinality({h \in firstRows(studs) : h < i}) < 20}

(* A click on the student's name in row i of the table.                    *)
SelectRecord(i) ==
  /\ i \in shownRows(students)
  /\ selectedRecordKey # rowKey(students[i])
  /\ selectedRecordKey' = rowKey(students[i])
  /\ selectedRecordName' = recordName(students[i])
  /\ UNCHANGED <<tz, upload, pending, fileName, students, error, selectedActiveId>>

(* The Close button of the panel shown while a record key is selected.     *)
CloseRecord ==
  /\ selectedRecordKey # <<>>
  /\ selectedRecordKey' = <<>>
  /\ selectedRecordName' = <<>>
  /\ UNCHANGED <<tz, upload, pending, fileName, students, error, selectedActiveId>>

(* The options of the active check-in menu: the empty one and the ids.      *)
activeOptions(studs) == {<<>>} \cup {e.id : e \in activeCheckIns(studs)}

(* onChange of the menu: setSelectedActiveId(e.target.value).              *)
SelectActive(id) ==
  /\ id # selectedActiveId
  /\ selectedActiveId' = id
  /\ UNCHANGED <<tz, upload, pending, fileName, students, error,
                 selectedRecordKey, selectedRecordName>>

---------------------------------------------------------------------------
(* Inputs.  A behaviour starts with the application constructed, the       *)
(* runtime's UTC offset tz fixed, and one spreadsheet `upload` that the    *)
(* user selects; every sheet of a family is a header row followed by       *)
(* 1..MaxRows data rows drawn from the family's rows.                      *)

SheetsOf(headerRow, dataRows) ==
  UNION {{<<headerRow>> \o body : body \in [1..n -> dataRows]} : n \in 1..MaxRows}

FilesOf(name, sheets) ==
  {[name |-> name, kind |-> "sheet", rows |-> rows] : rows \in sheets}

(* UTC-05:00, UTC and UTC+05:30.                                           *)
Offsets == {-300, 0, 330}

(* Check-in cells: the serial days of Wed 2024-01-03, Sun 2024-01-07 and   *)
(* Tue 2024-01-09, of Wed 2023-12-27 and Mon 2024-02-05, two stamps with   *)
(* an explicit offset, and an empty cell.                                  *)
WeekDateCells ==
  {Num(45294), Num(45298), Num(45300), Num(45287), Num(45327),
   Str(<<"2", "0", "2", "4", "-", "0", "1", "-", "0", "8", " ", "2", ":", "0", "0", "A", "M", " ", "+", "0", "0", ":", "0", "0">>), Str(<<"2", "0", "2", "4", "-", "0", "1", "-", "0", "6", " ", "1", "1", ":", "3", "0", "P", "M", " ", "-", "0", "5", ":", "0", "0">>), Null}

WeekHeader == <<Str(<<"N", "a", "m", "e">>), Str(<<"C", "h", "e", "c", "k", "-", "I", "n", " ", "D", "a", "t", "e">>)>>

WeekFiles ==
  FilesOf(<<"w", "e", "e", "k", ".", "x", "l", "s", "x">>,
          SheetsOf(WeekHeader, {<<Str(<<"A", "n", "n">>), c>> : c \in WeekDateCells}))

(* Rows of a five-column sheet: a title banner, header rows naming five,   *)
(* two (twice) and one recognized field, and data rows.                    *)
TitleRow   == <<Str(<<"J", "S", "A", "C", " ", "R", "o", "s", "t", "e", "r">>), Null, Null, Null, Null>>
HeaderRow5 == <<Str(<<"N", "a", "m", "e">>), Str(<<"A", "g", "e">>), Str(<<"E", "m", "a", "i", "l">>), Str(<<"C", "o", "u", "n", "t", "y">>), Str(<<"G", "r", "a", "d", "e">>)>>
HeaderRow2 == <<Str(<<"N", "a", "m", "e">>), Str(<<"N", "o", "t", "e", "s">>), Str(<<"E", "-", "M", "A", "I", "L">>), Null, Null>>
HeaderRowTwice == <<Str(<<"N", "A", "M", "E">>), Str(<<" ", "N", "a", "m", "e">>), Str(<<"N", "o", "t", "e", "s">>), Null, Null>>
HeaderRow1 == <<Str(<<"G", "r", "a", "d", "e">>), Str(<<"N", "o", "t", "e", "s">>), Null, Null, Null>>

ParseRows ==
  {TitleRow, HeaderRow5, HeaderRow2, HeaderRowTwice, HeaderRow1,
   <<Str(<<"B", "o", "b">>), Num(12), Null, Str(<<"K", "n", "o", "x">>), Str(<<"5">>)>>,
   <<Null, Str(<<"h", "i">>), Null, Null, Null>>,
   <<Str(<<"A", "n", "n">>), Null, Str(<<"n", "o", "t", "e">>), Null, Null>>}

(* Every sheet of 1..MaxRows+1 of these rows, in any order.                *)
ParseFiles ==
  FilesOf(<<"r", "o", "s", "t", "e", "r", ".", "x", "l", "s", "x">>,
          UNION {[1..n -> ParseRows] : n \in 1..(MaxRows + 1)})

(* Sheets whose header row is the README's "Expected Excel Format".        *)
ReadmeHeaderRow == [i \in 1..Len(ReadmeHeaders) |-> Str(ReadmeHeaders[i])]

ReadmeRows ==
  {<<Str(name), Str(<<"F">>), Num(12), Str(<<"R", "o", "b", "o">>), Num(7), Str(<<"E", "a", "s", "t", " ", "H", "i", "g", "h">>),
     Str(<<"K", "n", "o", "x">>), Num(37916), Str(<<"5">>), date, Null, Num(30)>> :
     name \in {<<"A", "n", "n">>, <<"B", "o", "b", " ", "L", "e", "e">>}, date \in {Num(45294), Null}}

ReadmeFiles == FilesOf(<<"e", "x", "p", "o", "r", "t", ".", "x", "l", "s", "x">>, SheetsOf(ReadmeHeaderRow, ReadmeRows))

(* Files whose read gives no result and files XLSX.read rejects.           *)
BrokenFiles ==
  {[name |-> <<"e", "m", "p", "t", "y", ".", "x", "l", "s", "x">>, kind |-> "nodata", rows |-> <<>>],
   [name |-> <<"n", "o", "t", "e", "s", ".", "t", "x", "t">>, kind |-> "corrupt", rows |-> <<>>],
   [name |-> <<"b", "l", "a", "n", "k", ".", "x", "l", "s", "x">>, kind |-> "sheet", rows |-> <<>>]}

(* Sheets for the derived views.  Serial days 45292 and 45296 are          *)
(* 2024-01-01 and 2024-01-05.                                              *)
CaseHeader ==
  <<Str(<<"N", "a", "m", "e">>), Str(<<"A", "g", "e">>), Str(<<"T", "e", "a", "m", " ", "N", "a", "m", "e">>), Str(<<"T", "e", "a", "m", " ", "N", "u", "m", "b", "e", "r">>),
    Str(<<"C", "h", "e", "c", "k", "-", "I", "n", " ", "D", "a", "t", "e">>)>>

CaseRows ==
  {<<Str(name), Num(12), Str(team), Num(7), date>> :
     name \in {<<"A", "n", "n">>, <<"A", "N", "N">>}, team \in {<<"R", "o", "b", "o">>, <<"R", "O", "B", "O">>},
     date \in {Num(45292), Num(45296)}}

FirstHeader == <<Str(<<"N", "a", "m", "e">>), Str(<<"C", "o", "u", "n", "t", "y">>), Str(<<"C", "h", "e", "c", "k", "-", "I", "n", " ", "D", "a", "t", "e">>)>>

FirstRows ==
  {<<name, Str(county), date>> :
     name \in {Str(<<"A", "n", "n">>), Str(<<"B", "o">>), Null}, county \in {<<"K", "n", "o", "x">>, <<"P", "o", "l", "k">>},
     date \in {Num(45292), Num(45296), Null}}

BarHeader == <<Str(<<"N", "a", "m", "e">>), Str(<<"A", "g", "e">>), Str(<<"C", "h", "e", "c", "k", "-", "I", "n", " ", "D", "a", "t", "e">>)>>

BarRows ==
  {<<Str(name), age, date>> :
     name \in {<<"|">>, <<"A", "n", "n">>}, age \in {Num(12), Null},
     date \in {Num(45292), Num(45296)}}

ActiveHeader ==
  <<Str(<<"N", "a", "m", "e">>), Str(<<"E", "m", "a", "i", "l">>), Str(<<"C", "h", "e", "c", "k", "e", "d", " ", "I", "n">>), Str(<<"C", "h", "e", "c", "k", "e", "d", " ", "O", "u", "t">>),
    Str(<<"C", "h", "e", "c", "k", "-", "I", "n", " ", "D", "a", "t", "e">>)>>

ActiveRows ==
  {<<Str(name), email, Str(<<"Y">>), Null, date>> :
     name \in {<<"A", "n", "n">>, <<"B", "o">>},
     email \in {Null, Str(<<>>), Str(<<"A", "@", "b", ".", "c", "o", "m">>)},
     date \in {Num(45292), Num(45296), Null}}

(* Demographic columns: a full row, a row with county and gender alone,    *)
(* and a row with a blank county and the age 0.                            *)
DemoHeader ==
  <<Str(<<"N", "a", "m", "e">>), Str(<<"C", "o", "u", "n", "t", "y">>), Str(<<"G", "r", "a", "d", "e">>), Str(<<"G", "e", "n", "d", "e", "r">>),
    Str(<<"H", "o", "m", "e", " ", "Z", "i", "p", " ", "C", "o", "d", "e">>), Str(<<"S", "c", "h", "o", "o", "l", " ", "N", "a", "m", "e">>), Str(<<"A", "g", "e">>),
    Str(<<"C", "h", "e", "c", "k", "-", "I", "n", " ", "D", "a", "t", "e">>)>>

DemoRows ==
  {<<Str(name)>> \o demo \o <<date>> :
     name \in {<<"A", "n", "n">>, <<"B", "o">>},
     demo \in {<<Str(<<"K", "n", "o", "x">>), Num(5), Str(<<"F">>), Num(37916), Str(<<"E", "a", "s", "t", " ", "H", "i", "g", "h">>), Num(12)>>,
               <<Str(<<"K", "n", "o", "x">>), Null, Str(<<"M">>), Null, Null, Null>>,
               <<Str(<<" ", " ">>), Str(<<"5">>), Null, Num(37916), Str(<<"W", "e", "s", "t">>), Num(0)>>},
     date \in {Num(45292), Null}}

AggFiles ==
  FilesOf(<<"c", "h", "e", "c", "k", "i", "n", "s", ".", "x", "l", "s", "x">>,
          SheetsOf(CaseHeader, CaseRows) \cup SheetsOf(FirstHeader, FirstRows)
          \cup SheetsOf(BarHeader, BarRows) \cup SheetsOf(ActiveHeader, ActiveRows)
          \cup SheetsOf(DemoHeader, DemoRows))

(* Sheets for the check-in flags.                                          *)
FlagHeader ==
  <<Str(<<"N", "a", "m", "e">>), Str(<<"C", "h", "e", "c", "k", "e", "d", " ", "I", "n">>), Str(<<"C", "h", "e", "c", "k", "e", "d", " ", "O", "u", "t">>), Str(<<"C", "h", "e", "c", "k", "-", "I", "n", " ", "D", "a", "t", "e">>)>>

FlagRows ==
  {<<Str(<<"A", "n", "n">>), in, out, date>> :
     in \in {Str(<<"Y">>), Str(<<"N">>), Null}, out \in {Null, Str(<<"y", "e", "s">>)},
     date \in {Num(45292), Num(45296)}}
  \cup {<<Str(<<"B", "o">>), Str(<<"Y">>), Null, Num(45292)>>,
        <<Str(<<"B", "o">>), Str(<<"N">>), Null, Num(45296)>>}

TotalHeader == <<Str(<<"N", "a", "m", "e">>), Str(<<"C", "h", "e", "c", "k", "e", "d", " ", "I", "n">>), Str(<<"C", "h", "e", "c", "k", "-", "I", "n", " ", "D", "a", "t", "e">>)>>

TotalRows ==
  {<<name, in, date>> :
     name \in {Str(<<"A", "n", "n">>), Null}, in \in {Str(<<"Y">>), Str(<<"N">>), Null},
     date \in {Num(45292), Null}}
  \cup {<<Str(<<"A", "n", "n">>), Str(<<"Y">>), Str(<<"s", "o", "o", "n">>)>>}

FlagFiles ==
  FilesOf(<<"f", "l", "a", "g", "s", ".", "x", "l", "s", "x">>,
          SheetsOf(FlagHeader, FlagRows) \cup SheetsOf(TotalHeader, TotalRows))

(* Sheets of one data row that holds one cell value under a numeric, a      *)
(* flag, a date and a text column.                                         *)
CellHeader ==
  <<Str(<<"N", "a", "m", "e">>), Str(<<"A", "g", "e">>), Str(<<"C", "h", "e", "c", "k", "e", "d", " ", "I", "n">>), Str(<<"C", "h", "e", "c", "k", "-", "I", "n", " ", "D", "a", "t", "e">>),
    Str(<<"C", "o", "u", "n", "t", "y">>)>>

Pad2(n) == <<DigitChar(n \div 10), DigitChar(n % 10)>>

(* The stamp "YYYY-MM-DD H:MM AM/PM +HH:MM" of the parts p.                *)
StampText(p) ==
  Pad2(p.y \div 100) \o Pad2(p.y % 100) \o <<"-">> \o Pad2(p.md[1]) \o <<"-">>
  \o Pad2(p.md[2]) \o <<" ">> \o NatToString(p.h) \o <<":">> \o Pad2(p.mi)
  \o p.gap \o p.ap \o <<" ", p.off[1]>> \o Pad2(p.off[2]) \o <<":">>
  \o Pad2(p.off[3])

StampParts ==
  [y : {1999, 2024}, md : {<<3, 15>>, <<12, 31>>}, h : {1, 2, 11, 12},
   mi : {0, 30}, gap : {<<>>, <<" ">>}, ap : {<<"A", "M">>, <<"P", "M">>, <<"p", "m">>},
   off : {<<"+", 0, 0>>, <<"-", 4, 0>>, <<"+", 5, 30>>}]

StampCells == {Str(StampText(p)) : p \in StampParts}

(* Flag words in several spellings, other texts, numbers, native          *)
(* booleans and the empty cell.                                            *)
FlagCells ==
  {Str(x) : x \in {<<"Y">>, <<"y">>, <<"Y", "e", "s">>, <<"T", "R", "U", "E">>, <<" ", "A", "d", "u", "l", "t">>, <<"n">>, <<"N", "O">>,
                   <<"f", "a", "l", "s", "e">>, <<"Y", "o", "u", "t", "h">>, <<" ", "C", "h", "i", "l", "d", " ">>, <<"m", "a", "y", "b", "e">>, <<"1">>, <<"0">>,
                   <<"a", "b", "c">>, <<" ", "7", " ">>, <<"-", "3">>, <<"2", "0", "2", "4", "-", "0", "3", "-", "1", "5">>, <<>>, <<" ", " ">>}}
  \cup {Num(1), Num(0), Num(2), Num(-1), Num(2958466), Bool(TRUE),
        Bool(FALSE), Null}

(* Serial days with a time of day: 2024-01-01 and 2024-01-05, and the     *)
(* days around the fictitious 29 February 1900, at 0:00, 6:00, 12:00 and   *)
(* 23:15.                                                                  *)
SerialCells ==
  {Serial(day, sec) : day \in {45292, 45296, 59, 60, 61},
                      sec \in {0, 21600, 43200, 83700}}

CellValues == StampCells \cup FlagCells \cup SerialCells

(* The cell under every column after a name, and under the numeric, flag   *)
(* and date columns alone.                                                 *)
CellFiles ==
  {[name |-> <<"c", "e", "l", "l", "s", ".", "x", "l", "s", "x">>, kind |-> "sheet", rows |-> <<CellHeader, row>>] :
     row \in {<<Str(<<"A", "n", "n">>), v, v, v, v>> : v \in CellValues}
             \cup {<<Null, v, v, v, Null>> : v \in CellValues}}

(* Header texts: up to three pieces in a row, the pieces being words,      *)
(* blanks, brackets, the entity &amp; in both cases, line breaks and       *)
(* characters that a key drops.                                            *)
HeaderPieces ==
  {<<>>, <<"A", "g", "e">>, <<"(", "y", "r", "s", "?", ")">>, <<" ">>, <<"(">>, <<")">>, <<"&", "a", "m", "p", ";">>, <<"&", "A", "M", "P", ";">>,
   <<"\r", "\n">>, <<"\n">>, <<"#", "2", "?">>}

HeaderTexts == {a \o b \o c : a \in HeaderPieces, b \in HeaderPieces, c \in HeaderPieces}

(* A sheet of one row: a name and a value under the header text.           *)
HeaderFiles ==
  {[name |-> <<"h", "e", "a", "d", "e", "r", "s", ".", "x", "l", "s", "x">>, kind |-> "sheet",
    rows |-> <<<<Str(<<"N", "a", "m", "e">>), Str(h)>>, <<Str(<<"A", "n", "n">>), Num(12)>>>>] :
     h \in HeaderTexts}

(* Rosters with the fields the records table requires.                    *)
RosterHeader ==
  <<Str(<<"N", "a", "m", "e">>), Str(<<"S", "c", "h", "o", "o", "l", " ", "N", "a", "m", "e">>), Str(<<"A", "g", "e">>), Str(<<"A", "d", "u", "l", "t", "?">>),
    Str(<<"G", "e", "n", "d", "e", "r">>), Str(<<"C", "h", "e", "c", "k", "e", "d", " ", "I", "n">>)>>

RosterFiles ==
  {[name |-> <<"m", "o", "n", "d", "a", "y", ".", "x", "l", "s", "x">>, kind |-> "sheet",
    rows |-> <<RosterHeader,
               <<Str(<<"A", "n", "n">>), Str(<<"E", "a", "s", "t", " ", "H", "i", "g", "h">>), Num(12), Str(<<"N">>), Str(<<"F">>), Str(<<"Y">>)>>>>],
   [name |-> <<"f", "r", "i", "d", "a", "y", ".", "x", "l", "s", "x">>, kind |-> "sheet",
    rows |-> <<RosterHeader,
               <<Str(<<"B", "o">>), Str(<<"W", "e", "s", "t">>), Num(13), Str(<<"N">>), Str(<<"M">>), Str(<<"Y">>)>>>>],
   [name |-> <<"n", "o", "t", "e", "s", ".", "t", "x", "t">>, kind |-> "corrupt", rows |-> <<>>]}

(* Files the user selects one after the other: two sheets of different    *)
(* records, the files of BrokenFiles and a file whose read fails.          *)
LoadFiles ==
  {[name |-> <<"m", "o", "n", "d", "a", "y", ".", "x", "l", "s", "x">>, kind |-> "sheet",
    rows |-> <<WeekHeader, <<Str(<<"A", "n", "n">>), Num(45292)>>>>],
   [name |-> <<"f", "r", "i", "d", "a", "y", ".", "x", "l", "s", "x">>, kind |-> "sheet",
    rows |-> <<WeekHeader, <<Str(<<"B", "o">>), Num(45296)>>, <<Str(<<"C", "y">>), Null>>>>],
   [name |-> <<"g", "o", "n", "e", ".", "x", "l", "s", "x">>, kind |-> "unreadable", rows |-> <<>>]}
  \cup BrokenFiles

TypeOK ==
  /\ tz \in Offsets
  /\ error \in {NoError, ReadError, ParseError}
  /\ Len(pending) <= MaxPending

InitApp ==
  /\ pending = <<>>
  /\ fileName = <<>>
  /\ students = <<>>
  /\ error = NoError
  /\ selectedRecordKey = <<>>
  /\ selectedRecordName = <<>>
  /\ selectedActiveId = <<>>

Next ==
  \/ HandleFileUpload(upload)
  \/ \E i \in 1..Len(pending) : ReaderOnload(i)

(* The user puts another file in the file input.                           *)
PickFile(file) ==
  /\ file # upload
  /\ upload' = file
  /\ UNCHANGED <<tz, pending, fileName, students, error,
               selectedRecordKey, selectedRecordName, selectedActiveId>>

NextLoad ==
  \/ Next
  \/ \E file \in LoadFiles : PickFile(file)
  \/ \E i \in 1..Len(pending) : ReaderOnerror(i)

NextSelect ==
  \/ Next
  \/ \E file \in RosterFiles : PickFile(file)
  \/ \E i \in 1..Len(students) : SelectRecord(i)
  \/ CloseRecord
  \/ \E id \in activeOptions(students) : SelectActive(id)

InitSelect == InitApp /\ tz = 0 /\ upload \in RosterFiles

SpecSelect == InitSelect /\ [][NextSelect]_vars

InitLoad == InitApp /\ tz = -300 /\ upload \in LoadFiles

SpecLoad == InitLoad /\ [][NextLoad]_vars

InitWeek == InitApp /\ tz \in Offsets /\ upload \in WeekFiles

SpecWeek == InitWeek /\ [][Next]_vars

(* The sheets of ParseFiles hold no date, so one offset serves them.       *)
InitParse ==
  /\ InitApp
  /\ \/ tz = 0 /\ upload \in ParseFiles
     \/ tz \in Offsets /\ upload \in ReadmeFiles \cup BrokenFiles

SpecParse == InitParse /\ [][Next]_vars

InitAgg == InitApp /\ tz = 0 /\ upload \in AggFiles

SpecAgg == InitAgg /\ [][Next]_vars

InitFlag == InitApp /\ tz = -300 /\ upload \in FlagFiles

SpecFlag == InitFlag /\ [][Next]_vars

InitHeader == InitApp /\ tz = 0 /\ upload \in HeaderFiles

SpecHeader == InitHeader /\ [][Next]_vars

InitCell == InitApp /\ tz \in Offsets /\ upload \in CellFiles

SpecCell == InitCell /\ [][Next]_vars

(* The file was selected, every read has completed and the last one        *)
(* parsed a sheet.                                                         *)
Loaded == fileName # <<>> /\ pending = <<>> /\ error = NoError

Dated == {j \in 1..Len(students) : hasValidDate(students[j].checkInDate)}

---------------------------------------------------------------------------
(* Weekly buckets.                                                         *)

(* The day number (days since 1970-01-01) of the local calendar date of    *)
(* instant d, and the Sunday on or before it.                              *)
LocalDay(d, off) == (d + off) \div 1440
SundayOnOrBefore(day) == day - ((day + 4) % 7)

CivilText(day) ==
  LET c == CivilFromDays(day) IN
    NumberToString(c.m) \o <<"/">> \o NumberToString(c.d) \o <<"/">>
    \o NumberToString(c.y)

SundayToSaturdayLabel(d, off) ==
  CivilText(SundayOnOrBefore(LocalDay(d, off))) \o <<" ", "-", " ">>
  \o CivilText(SundayOnOrBefore(LocalDay(d, off)) + 6)

CountedUnder(j, label) ==
  /\ weekLabelOf(students[j].checkInDate.n, tz) = label
  /\ \E e \in 1..Len(weekCounts(students, tz)) :
       weekCounts(students, tz)[e].label = label

(* C1: every record with a valid checkInDate is counted in the weekly      *)
(* bucket labelled "M/D/YYYY - M/D/YYYY" from the Sunday on or before the  *)
(* check-in's calendar date to the following Saturday; a check-in on       *)
(* Wednesday 2024-01-03 is counted under "12/31/2023 - 1/6/2024" and one   *)
(* on Tuesday 2024-01-09 under "1/7/2024 - 1/13/2024".                     *)
C1_SundayToSaturdayLabel ==
  \A j \in Dated :
    LET d == students[j].checkInDate.n IN
      /\ CountedUnder(j, SundayToSaturdayLabel(d, tz))
      /\ LocalDay(d, tz) = DaysFromCivil(2024, 1, 3)
           => CountedUnder(j, <<"1", "2", "/", "3", "1", "/", "2", "0", "2", "3", " ", "-", " ", "1", "/", "6", "/", "2", "0", "2", "4">>)
      /\ LocalDay(d, tz) = DaysFromCivil(2024, 1, 9)
           => CountedUnder(j, <<"1", "/", "7", "/", "2", "0", "2", "4", " ", "-", " ", "1", "/", "1", "3", "/", "2", "0", "2", "4">>)

(* C6: the weekly bucket and the label of a check-in are the same under    *)
(* every local UTC offset: the instant's week does not depend on the       *)
(* runtime's timezone.                                                     *)
C6_WeekIndependentOfTimezone ==
  \A j \in Dated : \A off \in Offsets :
    LET d == students[j].checkInDate.n IN
      /\ weekStartMs(d, off) = weekStartMs(d, tz)
      /\ weekLabelOf(d, off) = weekLabelOf(d, tz)

---------------------------------------------------------------------------
(* Header mapping and row parsing.                                         *)

Recognized(label) == mappedKeyOf(normalizeHeaderKey(trim(label))) # "none"

(* The header row the load used and the data rows after it.                *)
UsedHeaderIndex == detectHeader(upload.rows, Len(upload.rows)).bestHeaderIndex
UsedHeaderLabels == headerLabelsOf(upload.rows[UsedHeaderIndex + 1])
DataRowIndexes == (UsedHeaderIndex + 2)..Len(upload.rows)

(* A cell that is neither null nor blank text.                             *)
NonEmptyCell(cell) == hasText(cell)

(* A field value that is neither undefined, null nor empty text.           *)
NonEmptyValue(v) == v.t \notin {"undefined", "null"} /\ v # Str(<<>>)

HasRecognizedCell(i) ==
  \E c \in 1..Len(UsedHeaderLabels) :
    Recognized(UsedHeaderLabels[c]) /\ NonEmptyCell(upload.rows[i][c])

(* C4: every Student Record holds a non-empty value in a recognized field, *)
(* coerced from a non-empty cell: a data row whose cells under recognized  *)
(* headers are all null or empty yields no record, whatever the cells      *)
(* under unrecognized headers hold.                                        *)
C4_RecordsHoldMappedValue ==
  Loaded =>
    /\ \A j \in 1..Len(students) : \E f \in Fields : NonEmptyValue(students[j][f])
    /\ Len(students) <= Cardinality({i \in DataRowIndexes : HasRecognizedCell(i)})

UsesReadmeHeaders == Loaded /\ upload.rows[1] = ReadmeHeaderRow

(* C5: every header of the README's "Expected Excel Format" normalizes to  *)
(* a recognized key, and a sheet with exactly these headers yields records *)
(* whose studentName is the text of the "Student Name" column.             *)
C5_ReadmeHeadersRecognized ==
  UsesReadmeHeaders =>
    /\ \A i \in 1..Len(ReadmeHeaders) : Recognized(ReadmeHeaders[i])
    /\ Len(students) = Len(upload.rows) - 1
    /\ \A j \in 1..Len(students) :
         students[j].studentName = Str(trim(StringOf(upload.rows[j + 1][1])))

(* The number of cells of a row that normalize to a recognized field.      *)
RecognizedCells(row) ==
  Cardinality({c \in 1..Len(row) :
                 row[c].t \in {"string", "number"} /\ Recognized(StringOf(row[c]))})

MostRecognized(rows) ==
  CHOOSE m \in {RecognizedCells(rows[i]) : i \in 1..Len(rows)} :
    \A i \in 1..Len(rows) : RecognizedCells(rows[i]) <= m

(* The zero-based index the detector is to select.                         *)
ExpectedHeaderIndex(rows) ==
  IF MostRecognized(rows) >= 2
  THEN (CHOOSE i \in 1..Len(rows) :
          /\ RecognizedCells(rows[i]) = MostRecognized(rows)
          /\ \A k \in 1..(i - 1) : RecognizedCells(rows[k]) < MostRecognized(rows)) - 1
  ELSE 0

(* C10: the header row is the earliest row with the highest number of      *)
(* recognized cells when that number is at least 2, else row 0, and the    *)
(* Student Records are parsed from the rows strictly after it.             *)
C10_HeaderRowDetection ==
  Loaded =>
    /\ UsedHeaderIndex = ExpectedHeaderIndex(upload.rows)
    /\ students = dataRecords(upload.rows, ExpectedHeaderIndex(upload.rows), tz)
    /\ Len(students) <= Len(upload.rows) - (ExpectedHeaderIndex(upload.rows) + 1)

(* A title banner in row 0 and five recognized headers in row 1: row 1 is  *)
(* selected and the rows after it give records.                            *)
C10_Witness ==
  /\ Loaded
  /\ Len(upload.rows) = 3
  /\ upload.rows[1] = TitleRow
  /\ upload.rows[2] = HeaderRow5
  /\ RecognizedCells(upload.rows[1]) = 0
  /\ RecognizedCells(upload.rows[2]) = 5
  /\ UsedHeaderIndex = 1
  /\ Len(students) = 1

---------------------------------------------------------------------------
(* Unique profiles.                                                        *)

(* The records with a non-empty name and a valid check-in date.            *)
Contributing ==
  {i \in 1..Len(students) :
     recordName(students[i]) # <<>> /\ hasValidDate(students[i].checkInDate)}

(* The text of a field as the profile key reads it.                        *)
identityText(r) ==
  <<recordName(r), orEmpty(r.age), orEmpty(r.teamName), orEmpty(r.teamNumber)>>

(* The identity of a record up to letter case.                             *)
foldedIdentity(r) == [k \in 1..4 |-> toLowerCase(identityText(r)[k])]

ProfileKeys == {uniqueProfiles(students)[k].key : k \in 1..Len(uniqueProfiles(students))}

(* C2: records with a name and a valid check-in date that agree on name,   *)
(* age, team name and team number up to letter case produce one profile:   *)
(* Unique Students counts every case-folded identity once.                 *)
C2_CaseInsensitiveKey ==
  /\ uniqueStudentsCount(students)
       <= Cardinality({foldedIdentity(students[i]) : i \in Contributing})
  /\ \A i, j \in Contributing :
       foldedIdentity(students[i]) = foldedIdentity(students[j])
         => Cardinality(ProfileKeys \cap {profileKey(students[i]),
                                          profileKey(students[j])}) <= 1

(* The first record, in original order, that contributes key k.            *)
FirstWith(k) ==
  CHOOSE i \in Contributing :
    /\ profileKey(students[i]) = k
    /\ \A h \in Contributing : profileKey(students[h]) = k => i <= h

Without(j) == [h \in 1..(Len(students) - 1) |->
                 IF h < j THEN students[h] ELSE students[h + 1]]

(* The profile stored for a key is that of the first record with the key,  *)
(* and a later record with the key changes neither it nor the count.       *)
FirstWriteWins ==
  /\ \A k \in 1..Len(uniqueProfiles(students)) :
       /\ \E i \in Contributing : profileKey(students[i]) = uniqueProfiles(students)[k].key
       /\ uniqueProfiles(students)[k].value
            = profileOf(students[FirstWith(uniqueProfiles(students)[k].key)])
  /\ \A i, j \in Contributing :
       i < j /\ profileKey(students[i]) = profileKey(students[j])
         => uniqueProfiles(Without(j)) = uniqueProfiles(students)

(* Two records with identical name, age and team and different valid       *)
(* check-in dates yield exactly one profile.                               *)
OneProfilePerPair ==
  \A i, j \in Contributing :
    /\ i # j
    /\ identityText(students[i]) = identityText(students[j])
    /\ students[i].checkInDate # students[j].checkInDate
    => Cardinality({k \in 1..Len(uniqueProfiles(students)) :
                      uniqueProfiles(students)[k].key = profileKey(students[i])}) = 1

(* C8: unique profiles are first-write-wins, and two records with          *)
(* identical name/age/team and different valid check-in dates yield        *)
(* exactly one profile.                                                    *)
C8_FirstWriteWins == FirstWriteWins /\ OneProfilePerPair

(* C9: a record contributes a profile only if it has a non-empty name and  *)
(* a valid check-in date, and Unique Students is the number of distinct    *)
(* keys among exactly those records.                                       *)
C9_UniqueStudentsCount ==
  /\ ProfileKeys \subseteq {profileKey(students[i]) : i \in Contributing}
  /\ uniqueStudentsCount(students)
       = Cardinality({profileKey(students[i]) : i \in Contributing})

---------------------------------------------------------------------------
(* Active check-ins.                                                       *)

(* The records with checkedIn === true and checkedOut !== true.            *)
CheckedInNow ==
  {i \in 1..Len(students) :
     students[i].checkedIn = Bool(TRUE) /\ students[i].checkedOut # Bool(TRUE)}

ActiveIds == {e.id : e \in activeCheckIns(students)}

(* A sheet of the active check-in family whose every row gave a record:    *)
(* record i comes from row i + 1, whose second cell is the email.          *)
ActiveSheetLoaded ==
  /\ Loaded
  /\ upload.rows[1] = ActiveHeader
  /\ Len(students) = Len(upload.rows) - 1

EmailCell(i) == upload.rows[i + 1][2]

(* C3: the key of an active check-in is the lowercased email when the      *)
(* record has one and the lowercased name otherwise: two checked-in        *)
(* records with absent email cells and different names give two entries,   *)
(* one per name.                                                           *)
C3_ActiveKeyEmailElseName ==
  ActiveSheetLoaded =>
    /\ \A i \in CheckedInNow :
         IF EmailCell(i) \in {Null, Str(<<>>)}
         THEN toLowerCase(recordName(students[i])) \in ActiveIds
         ELSE toLowerCase(trim(EmailCell(i).s)) \in ActiveIds
    /\ \A i, j \in CheckedInNow :
         /\ EmailCell(i) \in {Null, Str(<<>>)}
         /\ EmailCell(j) \in {Null, Str(<<>>)}
         /\ recordName(students[i]) # recordName(students[j])
         => \E e1, e2 \in activeCheckIns(students) :
              /\ e1 # e2
              /\ e1.name = recordName(students[i])
              /\ e2.name = recordName(students[j])

(* The checked-in records that share the key of entry e.                   *)
GroupOf(e) == {i \in CheckedInNow : activeId(students[i]) = e.id}

DatedIn(g) == {i \in g : hasValidDate(students[i].checkInDate)}

(* The record of group g the entry is to carry: the earliest-encountered   *)
(* record with the latest date, or the earliest record when none is dated. *)
Retained(g) ==
  IF DatedIn(g) = {}
  THEN CHOOSE i \in g : \A h \in g : i <= h
  ELSE CHOOSE i \in DatedIn(g) :
         \A h \in DatedIn(g) :
           \/ students[h].checkInDate.n < students[i].checkInDate.n
           \/ students[h].checkInDate.n = students[i].checkInDate.n /\ i <= h

(* C7: among the records sharing an Active Check-in key the entry carries  *)
(* the latest checkInDate whatever the order of the records: a dated       *)
(* record displaces an undated one, a strictly later date an earlier one,  *)
(* and on equal dates (or no dates) the earlier-encountered record stays.  *)
C7_LatestCheckInRetained ==
  \A e \in activeCheckIns(students) :
    /\ GroupOf(e) # {}
    /\ e = activeEntry(students[Retained(GroupOf(e))])
    /\ \A i \in GroupOf(e) :
         hasValidDate(students[i].checkInDate)
           => /\ hasValidDate(e.checkInDate)
              /\ students[i].checkInDate.n <= e.checkInDate.n

(* Two records of different names share the email a@b.com (up to case)    *)
(* with check-in dates 2024-01-01 and then 2024-01-05: the one entry is    *)
(* that of the second record and carries 2024-01-05.                      *)
C7_Witness ==
  /\ ActiveSheetLoaded
  /\ Len(students) >= 2
  /\ \A i \in 1..Len(students) : activeId(students[i]) = <<"a", "@", "b", ".", "c", "o", "m">>
  /\ students[1].checkInDate = DateAt(DateUTC(2024, 0, 1, 0, 0) - tz)
  /\ students[2].checkInDate = DateAt(DateUTC(2024, 0, 5, 0, 0) - tz)
  /\ students[1].studentName # students[2].studentName
  /\ activeCheckIns(students) = {activeEntry(students[2])}

IsCheckedInNow(r) == r.checkedIn = Bool(TRUE) /\ r.checkedOut # Bool(TRUE)

(* C11: an Active Check-in Entry exists for a key if and only if a record  *)
(* with that non-empty key has checkedIn === true and checkedOut !== true; *)
(* the other records neither create nor replace an entry, so the entries   *)
(* are those of the checked-in records alone.                              *)
C11_ActiveIffCheckedIn ==
  /\ ActiveIds = {activeId(students[i]) : i \in CheckedInNow} \ {<<>>}
  /\ Cardinality(activeCheckIns(students)) = Cardinality(ActiveIds)
  /\ activeCheckIns(students) = activeCheckIns(SelectSeq(students, IsCheckedInNow))

(* Ann is checked in on 2024-01-01; a second record of Ann, checked out,   *)
(* carries the later date 2024-01-05: the one entry is that of the first   *)
(* record.                                                                 *)
C11_Witness ==
  /\ Loaded
  /\ upload.rows[1] = FlagHeader
  /\ Len(students) = 2
  /\ IsCheckedInNow(students[1])
  /\ students[2].checkedIn = Bool(TRUE) /\ students[2].checkedOut = Bool(TRUE)
  /\ activeId(students[1]) = activeId(students[2])
  /\ students[1].checkInDate.n < students[2].checkInDate.n
  /\ activeCheckIns(students) = {activeEntry(students[1])}

---------------------------------------------------------------------------
(* Coercion of single cells.                                               *)

(* A sheet of CellFiles is loaded: the cell is the fourth of the data row. *)
CellLoaded == Loaded /\ upload.rows[1] = CellHeader

Named == upload.rows[2][1] # Null

TheCell == upload.rows[2][4]

(* The stated date and 12-hour time of the parts p as minutes of UTC wall  *)
(* time, less the signed offset.                                           *)
StatedHour(p) ==
  IF p.ap = <<"A", "M">> THEN (IF p.h = 12 THEN 0 ELSE p.h)
  ELSE (IF p.h = 12 THEN 12 ELSE p.h + 12)

StatedInstant(p) ==
  DaysFromCivil(p.y, p.md[1], p.md[2]) * 1440 + StatedHour(p) * 60 + p.mi
  - (IF p.off[1] = "+" THEN 1 ELSE -1) * (p.off[2] * 60 + p.off[3])

(* C12: a text "YYYY-MM-DD H:MM AM/PM +-HH:MM" coerces to the instant got  *)
(* by reading the stated date and 12-hour time as UTC wall time (12 AM is  *)
(* hour 0, 12 PM hour 12, other PM hours + 12) and subtracting the signed  *)
(* offset; "2024-03-15 2:30PM -04:00" gives 2024-03-15T18:30:00Z.          *)
C12_StampInstant ==
  CellLoaded =>
    /\ \A p \in StampParts :
         TheCell = Str(StampText(p))
           => /\ Len(students) = 1
              /\ students[1].checkInDate = DateAt(StatedInstant(p))
    /\ TheCell = Str(<<"2", "0", "2", "4", "-", "0", "3", "-", "1", "5", " ", "2", ":", "3", "0", "P", "M", " ", "-", "0", "4", ":", "0", "0">>)
         => students[1].checkInDate = DateAt(DateUTC(2024, 2, 15, 18, 30))

(* The cell "2024-03-15 2:30PM -04:00" was loaded as 18:30 UTC of that     *)
(* day.                                                                    *)
C12_Witness ==
  /\ CellLoaded
  /\ TheCell = Str(<<"2", "0", "2", "4", "-", "0", "3", "-", "1", "5", " ", "2", ":", "3", "0", "P", "M", " ", "-", "0", "4", ":", "0", "0">>)
  /\ TheCell \in StampCells
  /\ students[1].checkInDate = DateAt(DateUTC(2024, 2, 15, 18, 30))

(* The words that read as true and as false.                               *)
TrueWords == {<<"y">>, <<"y", "e", "s">>, <<"t", "r", "u", "e">>, <<"a", "d", "u", "l", "t">>}
FalseWords == {<<"n">>, <<"n", "o">>, <<"f", "a", "l", "s", "e">>, <<"y", "o", "u", "t", "h">>, <<"c", "h", "i", "l", "d">>}

(* The flag a cell is to give; Null is the absent value.                   *)
FlagOf(v) ==
  CASE v.t = "null" \/ v = Str(<<>>) -> Null
    [] v.t = "boolean" -> v
    [] v.t = "number" -> IF v = Num(1) THEN Bool(TRUE)
                         ELSE IF v = Num(0) THEN Bool(FALSE) ELSE Null
    [] v.t = "string" /\ v # Str(<<>>) ->
         IF toLowerCase(trim(v.s)) \in TrueWords THEN Bool(TRUE)
         ELSE IF toLowerCase(trim(v.s)) \in FalseWords THEN Bool(FALSE)
         ELSE Null

(* C15: boolean-flag coercion is tri-state and total: empty or null gives  *)
(* absent, a native boolean itself, the number 1 true, 0 false and any     *)
(* other number absent; a text gives, trimmed and lowercased, true for     *)
(* y/yes/true/adult, false for n/no/false/youth/child and absent           *)
(* otherwise: "Y" is true, " Child " is false, "" is absent.               *)
C15_BooleanFlagTriState ==
  /\ CellLoaded /\ Named
       => /\ Len(students) = 1
          /\ students[1].checkedIn = FlagOf(TheCell)
          /\ students[1].checkedIn \in {Bool(TRUE), Bool(FALSE), Null}
          /\ TheCell = Str(<<"Y">>) => students[1].checkedIn = Bool(TRUE)
          /\ TheCell = Str(<<" ", "C", "h", "i", "l", "d", " ">>) => students[1].checkedIn = Bool(FALSE)
          /\ TheCell = Str(<<>>) => students[1].checkedIn = Null
  /\ CellLoaded /\ ~Named /\ students # <<>>
       => students[1].checkedIn = FlagOf(TheCell)

(* The cell " Child " under Checked In was loaded as false.                *)
C15_Witness ==
  /\ CellLoaded /\ Named
  /\ TheCell = Str(<<" ", "C", "h", "i", "l", "d", " ">>)
  /\ students[1].checkedIn = Bool(FALSE)

(* The values a coercer returns: a typed value or the absent value.        *)
IsNumberOrAbsent(v) == v.t \in {"number", "null"}
IsFlagOrAbsent(v) == v.t \in {"boolean", "null"}
IsDateOrAbsent(v) == v.t \in {"date", "null"}
IsTextOrAbsent(v) == v.t \in {"string", "undefined"}

(* C13: malformed cells and rows raise nothing: whatever the cell (text,   *)
(* number, boolean, null) the load ends without the parse error, the row   *)
(* gives one record or none, and every coerced field of the record is a    *)
(* value of its type or absent.                                            *)
C13_CoercersNeverRaise ==
  fileName # <<>> /\ pending = <<>> /\ upload.rows[1] = CellHeader
    => /\ error = NoError
       /\ Len(students) <= 1
       /\ Named => Len(students) = 1
       /\ \A j \in 1..Len(students) :
            /\ IsNumberOrAbsent(students[j].age)
            /\ IsFlagOrAbsent(students[j].checkedIn)
            /\ IsDateOrAbsent(students[j].checkInDate)
            /\ IsTextOrAbsent(students[j].county)
            /\ IsTextOrAbsent(students[j].studentName)

(* The text "maybe" under the numeric, flag and date columns of a row      *)
(* without a name: every coercer gave absent and the row gave no record.   *)
C13_Witness ==
  /\ CellLoaded /\ ~Named
  /\ TheCell = Str(<<"m", "a", "y", "b", "e">>)
  /\ parseNumber(TheCell) = Null
  /\ parseBooleanFlag(TheCell) = Null
  /\ parseDateValue(TheCell, tz) = Null
  /\ students = <<>>

(* The day number of the calendar date of serial day n in the 1900 date    *)
(* system.                                                                 *)
SerialDay(n) ==
  IF n <= 60 THEN DaysFromCivil(1899, 12, 31) + n
  ELSE DaysFromCivil(1899, 12, 30) + n

(* C20: the date of a numeric serial depends on its whole-day part only:   *)
(* serials of the same day and different times of day coerce to local      *)
(* midnight of the same calendar date.                                     *)
C20_SerialWholeDay ==
  CellLoaded /\ Named /\ TheCell \in SerialCells
    => /\ students[1].checkInDate = DateAt(SerialDay(TheCell.n) * 1440 - tz)
       /\ students[1].checkInDate = parseDateValue(Num(TheCell.n), tz)

(* Serial 45296.96875 (2024-01-05 23:15) was loaded as local midnight of   *)
(* 2024-01-05.                                                             *)
C20_Witness ==
  /\ CellLoaded /\ Named
  /\ TheCell = Serial(45296, 83700)
  /\ students[1].checkInDate = DateAt(DateUTC(2024, 0, 5, 0, 0) - tz)

---------------------------------------------------------------------------
(* Loading one file after another.                                         *)

(* The file selected last: the file of the name shown.                     *)
LastFile == CHOOSE f \in LoadFiles : f.name = fileName

FailsToLoad(f) == f.kind \in {"unreadable", "nodata", "corrupt"} \/ f.rows = <<>>

(* C14: after a load that fails to read or parse the Student Record list   *)
(* is empty and one error message is shown; after a load that succeeds     *)
(* the list is exactly the records parsed from that file and the error     *)
(* message is cleared.                                                     *)
C14_LoadOutcome ==
  fileName # <<>> /\ pending = <<>>
    => IF FailsToLoad(LastFile)
       THEN students = <<>> /\ error \in {ReadError, ParseError}
       ELSE students = parseSheet(LastFile.rows, tz) /\ error = NoError

(* The same for the file whose read gives no data.                         *)
NoDataClearsList ==
  fileName = <<"e", "m", "p", "t", "y", ".", "x", "l", "s", "x">> /\ pending = <<>>
    => students = <<>> /\ error = ReadError

---------------------------------------------------------------------------
(* Category breakdowns.                                                    *)

Breakdowns ==
  [county |-> countyCounts(students), grade |-> gradeCounts(students),
   gender |-> genderCounts(students), homeZipCode |-> zipCounts(students),
   schoolName |-> schoolCounts(students), age |-> ageCounts(students)]

(* The profiles that have the field: a text that is not empty, or any age. *)
HavingField(field) ==
  {j \in 1..Len(uniqueProfiles(students)) :
     LET v == uniqueProfiles(students)[j].value[field] IN
       /\ v.t \notin {"undefined", "null"}
       /\ field # "age" => v # Str(<<>>)}

FieldText(field, j) == StringOf(uniqueProfiles(students)[j].value[field])

RECURSIVE TotalOf(_, _)
TotalOf(bucket, keys) ==
  IF keys = {} THEN 0
  ELSE LET k == CHOOSE x \in keys : TRUE IN bucket[k] + TotalOf(bucket, keys \ {k})

(* C16: each of the six breakdowns counts Unique Student Profiles only:    *)
(* the count of a value is the number of profiles whose stored field has   *)
(* that string form, a profile without the field is counted nowhere, and   *)
(* the counts sum to the number of profiles with the field, at most the    *)
(* Unique Students metric.                                                 *)
C16_BreakdownsOverProfiles ==
  \A field \in DOMAIN Breakdowns :
    LET bucket == Breakdowns[field] IN
      /\ DOMAIN bucket = {FieldText(field, j) : j \in HavingField(field)}
      /\ \A k \in DOMAIN bucket :
           bucket[k] = Cardinality({j \in HavingField(field) : FieldText(field, j) = k})
      /\ TotalOf(bucket, DOMAIN bucket) = Cardinality(HavingField(field))
      /\ TotalOf(bucket, DOMAIN bucket) <= uniqueStudentsCount(students)

(* Two visits of one student from Knox with no grade: one profile, Knox    *)
(* counted once and no grade counted.                                      *)
C16_Witness ==
  /\ Loaded
  /\ upload.rows[1] = DemoHeader
  /\ Cardinality(Dated) = 2
  /\ uniqueStudentsCount(students) = 1
  /\ DOMAIN countyCounts(students) = {<<"K", "n", "o", "x">>}
  /\ countyCounts(students)[<<"K", "n", "o", "x">>] = 1
  /\ DOMAIN gradeCounts(students) = {}

---------------------------------------------------------------------------
(* Monthly and weekly activity.                                            *)

RECURSIVE SumCounts(_, _)
SumCounts(ordered, n) ==
  IF n = 0 THEN 0 ELSE ordered[n].count + SumCounts(ordered, n - 1)

CountOf(ordered, label) ==
  SumCounts(SelectSeq(ordered, LAMBDA e : e.label = label),
            Len(SelectSeq(ordered, LAMBDA e : e.label = label)))

MonthOf(i) == formatYearMonth(students[i].checkInDate.n, tz)

WeekOf(i) == weekStartMs(students[i].checkInDate.n, tz)

(* C17: monthly and weekly activity count every record with a valid        *)
(* checkInDate exactly once, repeat visits of one student included: the    *)
(* counts of the monthly buckets and of the weekly buckets each sum to the *)
(* number of such records, and each bucket holds the number of records of  *)
(* its month or week.                                                      *)
C17_EveryDatedRecordCounted ==
  LET months == monthCounts(students, tz)
      weeks  == weekCounts(students, tz)
  IN /\ SumCounts(months, Len(months)) = Cardinality(Dated)
     /\ SumCounts(weeks, Len(weeks)) = Cardinality(Dated)
     /\ \A i \in Dated :
          /\ CountOf(months, monthLabel(MonthOf(i), tz))
               = Cardinality({j \in Dated : MonthOf(j) = MonthOf(i)})
          /\ CountOf(weeks, getWeekRange(WeekOf(i), tz))
               = Cardinality({j \in Dated : WeekOf(j) = WeekOf(i)})

(* Two visits of Ann in one week of one month.                             *)
C17_Witness ==
  /\ Loaded
  /\ Cardinality(Dated) = 2
  /\ uniqueStudentsCount(students) = 1
  /\ Len(monthCounts(students, tz)) = 1
  /\ Len(weekCounts(students, tz)) = 1
  /\ monthCounts(students, tz)[1] = [label |-> <<"J", "a", "n", "u", "a", "r", "y", " ", "2", "0", "2", "4">>, count |-> 2]

---------------------------------------------------------------------------
(* Total check-ins.                                                        *)

TotalSheetLoaded == Loaded /\ upload.rows[1] = TotalHeader

NamedRecords == {i \in 1..Len(students) : recordName(students[i]) # <<>>}

FlaggedIn == {i \in 1..Len(students) : students[i].checkedIn = Bool(TRUE)}

NotFlaggedIn(r) == r.checkedIn # Bool(TRUE)

(* C18: total check-ins is the number of records of the list, repeat       *)
(* visits included, with a non-empty name, checkedIn true and a valid      *)
(* check-in date; a record whose checkedIn is false or absent adds         *)
(* nothing, whatever its name and date.                                    *)
C18_TotalCheckIns ==
  /\ totalCheckIns(students) = Cardinality(NamedRecords \cap FlaggedIn \cap Dated)
  /\ totalCheckIns(SelectSeq(students, NotFlaggedIn)) = 0
  /\ totalCheckIns(students) <= Len(students)

(* Two visits of Ann on 2024-01-01, the first checked in and the second    *)
(* not: one check-in, one student, two dated records.                      *)
C18_Witness ==
  /\ TotalSheetLoaded
  /\ Len(upload.rows) = 3
  /\ upload.rows[2] = <<Str(<<"A", "n", "n">>), Str(<<"Y">>), Num(45292)>>
  /\ upload.rows[3] = <<Str(<<"A", "n", "n">>), Str(<<"N">>), Num(45292)>>
  /\ Cardinality(NamedRecords \cap Dated) = 2
  /\ totalCheckIns(students) = 1

(* Two checked-in visits of the same student on the same day both count.   *)
C18_RepeatVisitsCounted ==
  (/\ TotalSheetLoaded
   /\ Len(upload.rows) = 3
   /\ upload.rows[2] = <<Str(<<"A", "n", "n">>), Str(<<"Y">>), Num(45292)>>
   /\ upload.rows[3] = upload.rows[2])
  => totalCheckIns(students) = 2 /\ uniqueStudentsCount(students) = 1

---------------------------------------------------------------------------
(* Order of the monthly and weekly buckets.                                *)

(* The place of the label in the output, 0 when it is not there.           *)
PositionOf(ordered, label) ==
  IF \E j \in 1..Len(ordered) : ordered[j].label = label
  THEN CHOOSE j \in 1..Len(ordered) : ordered[j].label = label
  ELSE 0

(* Months since year 0 of the local date of record i.                      *)
MonthIndex(i) ==
  getFullYear(students[i].checkInDate.n, tz) * 12 + getMonth(students[i].checkInDate.n, tz)

MonthPosition(i) ==
  PositionOf(monthCounts(students, tz), monthLabel(MonthOf(i), tz))

WeekPosition(i) ==
  PositionOf(weekCounts(students, tz), getWeekRange(WeekOf(i), tz))

(* C19: the monthly and the weekly buckets are emitted in chronological    *)
(* order of their keys: of two records, the bucket of the one in the       *)
(* earlier year-month, or the earlier week, comes first in the output,     *)
(* whatever the order of the rows and of the labels.                       *)
C19_BucketsInKeyOrder ==
  \A i \in Dated : \A j \in Dated :
    /\ MonthPosition(i) >= 1 /\ WeekPosition(i) >= 1
    /\ MonthIndex(i) < MonthIndex(j) => MonthPosition(i) < MonthPosition(j)
    /\ WeekOf(i) < WeekOf(j) => WeekPosition(i) < WeekPosition(j)

(* A visit on 2024-02-05 listed before one on 2023-12-27: December 2023    *)
(* is emitted first, and so is its week.                                   *)
C19_Witness ==
  /\ Loaded
  /\ Len(upload.rows) = 3
  /\ upload.rows[2][2] = Num(45327)
  /\ upload.rows[3][2] = Num(45287)
  /\ monthCounts(students, tz)
       = <<[label |-> <<"D", "e", "c", "e", "m", "b", "e", "r", " ", "2", "0", "2", "3">>, count |-> 1],
           [label |-> <<"F", "e", "b", "r", "u", "a", "r", "y", " ", "2", "0", "2", "4">>, count |-> 1]>>
  /\ WeekPosition(2) = 1 /\ WeekPosition(1) = 2

---------------------------------------------------------------------------
(* Header normalization.                                                   *)

(* The text of the second header cell of the sheet.                        *)
TheHeader == upload.rows[1][2].s

(* C21: header normalization is idempotent: the normalized form of a       *)
(* header is its own normalized form, and it holds lowercase letters,      *)
(* digits and '?' alone.                                                   *)
C21_NormalizationIdempotent ==
  upload.rows[1][1] = Str(<<"N", "a", "m", "e">>) /\ Len(upload.rows[1]) = 2 =>
    /\ normalizeHeaderKey(normalizeHeaderKey(TheHeader)) = normalizeHeaderKey(TheHeader)
    /\ \A i \in 1..Len(normalizeHeaderKey(TheHeader)) :
         normalizeHeaderKey(TheHeader)[i] \in LowerLetters \cup Digits \cup {"?"}

(* The header "Age (yrs?)" on two lines is read as the age column.         *)
C21_Witness ==
  /\ Loaded
  /\ TheHeader = <<"A", "g", "e">> \o <<"\n">> \o <<"(", "y", "r", "s", "?", ")">>
  /\ normalizeHeaderKey(TheHeader) = <<"a", "g", "e">>
  /\ Len(students) = 1
  /\ students[1].age = Num(12)

---------------------------------------------------------------------------
(* Two reads in flight.                                                    *)

(* C22: when a second file is selected while the read of the first is      *)
(* pending, the list holds, once both callbacks have run, the records of   *)
(* the file selected last, the one whose name is shown, whichever read     *)
(* completes first.                                                        *)
C22_LastSelectedFileWins ==
  fileName # <<>> /\ pending = <<>> /\ ~FailsToLoad(LastFile)
    => students = parseSheet(LastFile.rows, tz)

---------------------------------------------------------------------------
(* The most recent check-in of an identity.                                *)

(* Record i carries the latest check-in date among the records of its      *)
(* identity key.                                                           *)
IsLatestOfIdentity(i) ==
  /\ activeId(students[i]) # <<>>
  /\ hasValidDate(students[i].checkInDate)
  /\ \A h \in 1..Len(students) :
       h # i /\ activeId(students[h]) = activeId(students[i])
         => \/ ~hasValidDate(students[h].checkInDate)
            \/ students[h].checkInDate.n < students[i].checkInDate.n

(* C23: when the record with the latest check-in date of an identity has   *)
(* checkedOut === true, the identity has no Active Check-in Entry.         *)
C23_CheckedOutLatestNotActive ==
  \A i \in 1..Len(students) :
    IsLatestOfIdentity(i) /\ students[i].checkedOut = Bool(TRUE)
      => activeId(students[i]) \notin ActiveIds

---------------------------------------------------------------------------
(* The dates a weekly label prints.                                        *)

(* The label prints a start date on or before the day and an end date on   *)
(* or after it, at most a week away.                                       *)
LabelCovers(label, day) ==
  \E a \in (day - 7)..day : \E b \in day..(day + 7) :
    label = CivilText(a) \o <<" ", "-", " ">> \o CivilText(b)

(* C24: the label of a weekly bucket covers the check-ins counted in it:   *)
(* under every local UTC offset the local calendar date of a record lies   *)
(* between the start date and the end date of the label of its bucket.     *)
C24_LabelCoversLocalDate ==
  \A j \in Dated :
    /\ CountedUnder(j, weekLabelOf(students[j].checkInDate.n, tz))
    /\ LabelCovers(weekLabelOf(students[j].checkInDate.n, tz),
                   LocalDay(students[j].checkInDate.n, tz))

(* The same where local time is not behind UTC.                            *)
LabelCoversEastOfUTC == tz >= 0 => C24_LabelCoversLocalDate

---------------------------------------------------------------------------
(* Selections across loads.                                                *)

(* C25: after any sequence of loads and selections a non-empty selected    *)
(* record key and a non-empty selected active check-in id each refer to a  *)
(* student of the current Student Record list.                             *)
C25_SelectionsInCurrentList ==
  /\ selectedRecordKey # <<>>
       => \E i \in 1..Len(students) : rowKey(students[i]) = selectedRecordKey
  /\ selectedActiveId # <<>>
       => \E i \in 1..Len(students) : activeId(students[i]) = selectedActiveId

(* The same for the record key alone, and for the active id alone.         *)
RecordKeyInCurrentList ==
  selectedRecordKey # <<>>
    => \E i \in 1..Len(students) : rowKey(students[i]) = selectedRecordKey

ActiveIdInCurrentList ==
  selectedActiveId # <<>>
    => \E i \in 1..Len(students) : activeId(students[i]) = selectedActiveId

=============================================================================
